---------------------------- MODULE Spec2Model ----------------------------
(***************************************************************************)
(* Model of rd-cast: the LinkCache (src/src/storage.js, both backings, and *)
(* the older file cache of src/src/strmCache.js), the torrent resolution   *)
(* pipeline (processMagnet / processSelectedFile of worker-combined.js and *)
(* of the application bundled in strmCache.js), the /strm/:linkId refresh  *)
(* handler of worker-combined.js, the virtual directories (/downloads/,    *)
(* /dmmcast/ and the home page of strmCache.js, /webdav/ of                *)
(* worker-combined.js) and two LinkCache writes in progress at once.       *)
(*                                                                         *)
(* Time is the JavaScript clock in milliseconds.  Optional values          *)
(* (null / undefined) are sequences of length 0 or 1.  A JavaScript object *)
(* used as a map is a function whose DOMAIN is its set of keys.            *)
(***************************************************************************)
EXTENDS Integers, Sequences, FiniteSets, TLC

VARIABLES
  backing,        \* which LinkCache implementation serves this process
  nodeStrmCache,  \* storage.js:69  module-level in-memory cache (null = not loaded)
  cacheFile,      \* DATA_DIR/strm-cache.json on disk
  kv,             \* the CAST_MAGNET_LINK KV namespace: key -> value and expiry
  now,            \* Date.now()
  ticks,          \* number of clock advances so far
  obs,            \* the last LinkCache / strm operation and what it returned
  variant,        \* which pipeline source runs: worker-combined.js or the strmCache.js app
  pc,             \* position of the current pipeline run
  run,            \* locals of the current pipeline run
  calls,          \* upstream calls and cache writes issued by the current run, in order
  result,         \* what the current run returned to its caller
  sessions,       \* torrent ids that exist in the upstream account
  feed,           \* what the upstream feed of the directory answers
  dav,            \* the last virtual-directory request and its response
  heap,           \* the cache objects of the Node.js process, by reference, and the one nodeStrmCache names
  writers,        \* the LinkCache writes in progress: their arguments, position and locals
  twin,           \* the last call made on both storage.js backings and what each returned
  urlAt,          \* per identifier, the time the stored unrestrictedUrl reached the cache (followed through the LinkCache operations)
  http            \* the HTTP request being answered: method, path, credentials, and the response

cacheVars == <<backing, nodeStrmCache, cacheFile, kv, now, ticks, obs>>
pipeVars == <<variant, pc, run, calls, result, sessions>>
davVars == <<feed, dav>>
writerVars == <<heap, writers>>
vars == <<backing, nodeStrmCache, cacheFile, kv, now, ticks, obs,
          variant, pc, run, calls, result, sessions, feed, dav, heap, writers, twin, urlAt,
          http>>

---------------------------------------------------------------------------
(* Bounds of the model *)

MaxTicks == 3
MaxFiles == 3
MaxFeedIds == 11
MaxCasted == 2
MaxRecent == 2

---------------------------------------------------------------------------
(* Values *)

Null == <<>>
Some(x) == <<x>>
IsNull(m) == Len(m) = 0
Val(m) == m[1]

EmptyMap == [k \in {} |-> {}]
MapPut(m, k, v) == [x \in (DOMAIN m) \cup {k} |-> IF x = k THEN v ELSE m[x]]

LinkIds == {"L1", "L2"}

\* A Real-Debrid link as new URL(link) sees it: hostname and pathname.split('/').
RdLink(id) == [hostname |-> "real-debrid.com", pathParts |-> <<"", "d", id>>]
RdLinkAlt(id) == [hostname |-> "real-debrid.com", pathParts |-> <<"", "d", id, "x">>]

SEVEN_DAYS_MS == 7 * 24 * 60 * 60 * 1000
sevenDaysInSeconds == 7 * 24 * 60 * 60
FORTY_EIGHT_HOURS_MS == 48 * 60 * 60 * 1000
TWO_MB == 2 * 1024 * 1024
SETTLE_DELAY_MS == 2000

\* new Date(ms).toISOString(): date part (days since the epoch), hours,
\* minutes, seconds and milliseconds, each its own field of the text.
toISOString(ms) ==
  << ms \div 86400000,
     (ms \div 3600000) % 24,
     (ms \div 60000) % 60,
     (ms \div 1000) % 60,
     ms % 1000 >>

\* new Date(iso).getTime()
getTime(iso) ==
  (((iso[1] * 24 + iso[2]) * 60 + iso[3]) * 60 + iso[4]) * 1000 + iso[5]

---------------------------------------------------------------------------
(* src/src/storage.js - nodeStorage (local file with in-memory cache) *)

\* The store an operation works on, and the store it leaves.
Store == [mem |-> nodeStrmCache, file |-> cacheFile, kv |-> kv]

\* _loadNodeStrmCache: the cached object if there is one; else the parsed
\* file, which becomes the cached object; else (ENOENT) a fresh {} that is
\* not remembered.
nodeStorage_loadNodeStrmCache(S) ==
  IF S.mem.loaded THEN [S |-> S, cache |-> S.mem.map]
  ELSE IF S.file.exists
       THEN [S |-> [S EXCEPT !.mem = [loaded |-> TRUE, map |-> S.file.data]],
             cache |-> S.file.data]
       ELSE [S |-> S, cache |-> EmptyMap]

\* The entries _cleanupAndSaveStrmCache keeps.
nodeStorage_cleaned(cache, t) ==
  LET keep == {k \in DOMAIN cache : t - getTime(cache[k].generatedAt) < SEVEN_DAYS_MS}
  IN [k \in keep |-> cache[k]]

\* _cleanupAndSaveStrmCache: nodeStrmCache is replaced first, then the file
\* is written; ioOk = FALSE is mkdir / writeFile rejecting.
nodeStorage_cleanupAndSaveStrmCache(S, cache, t, ioOk) ==
  LET cleaned == nodeStorage_cleaned(cache, t)
  IN [S EXCEPT !.mem = [loaded |-> TRUE, map |-> cleaned],
               !.file = IF ioOk THEN [exists |-> TRUE, data |-> cleaned] ELSE @]

nodeStorage_getStrmEntry(S, linkId) ==
  LET l == nodeStorage_loadNodeStrmCache(S)
  IN [S |-> l.S,
      ret |-> IF linkId \in DOMAIN l.cache THEN Some(l.cache[linkId]) ELSE Null]

\* Variant: the write replaces a manually added entry like any other.
nodeStorage_addStrmEntry_overwrite(S, linkId, originalLink, unrestrictedUrl, filename, manuallyAdded, filesize, t, ioOk) ==
  nodeStorage_cleanupAndSaveStrmCache(nodeStorage_loadNodeStrmCache(S).S,
    MapPut(nodeStorage_loadNodeStrmCache(S).cache, linkId,
           [originalLink |-> originalLink,
            unrestrictedUrl |-> unrestrictedUrl,
            generatedAt |-> toISOString(t),
            filename |-> filename,
            manuallyAdded |-> manuallyAdded,
            filesize |-> filesize]), t, ioOk)

\* Variant: the passive put on a manually added entry saves the cache
\* without refreshing the entry's generatedAt.
nodeStorage_addStrmEntry_noRefresh(S, linkId, originalLink, unrestrictedUrl, filename, manuallyAdded, filesize, t, ioOk) ==
  IF /\ ~manuallyAdded
     /\ linkId \in DOMAIN nodeStorage_loadNodeStrmCache(S).cache
     /\ nodeStorage_loadNodeStrmCache(S).cache[linkId].manuallyAdded
  THEN nodeStorage_cleanupAndSaveStrmCache(nodeStorage_loadNodeStrmCache(S).S,
         nodeStorage_loadNodeStrmCache(S).cache, t, ioOk)
  ELSE nodeStorage_cleanupAndSaveStrmCache(nodeStorage_loadNodeStrmCache(S).S,
         MapPut(nodeStorage_loadNodeStrmCache(S).cache, linkId,
                [originalLink |-> originalLink,
                 unrestrictedUrl |-> unrestrictedUrl,
                 generatedAt |-> toISOString(t),
                 filename |-> filename,
                 manuallyAdded |-> manuallyAdded,
                 filesize |-> filesize]), t, ioOk)

nodeStorage_addStrmEntry(S, linkId, originalLink, unrestrictedUrl, filename, manuallyAdded, filesize, t, ioOk) ==
  LET l == nodeStorage_loadNodeStrmCache(S)
      cache == l.cache
  IN IF ~manuallyAdded /\ linkId \in DOMAIN cache /\ cache[linkId].manuallyAdded
     THEN nodeStorage_cleanupAndSaveStrmCache(l.S,
            [cache EXCEPT ![linkId].generatedAt = toISOString(t)], t, ioOk)
     ELSE nodeStorage_cleanupAndSaveStrmCache(l.S,
            MapPut(cache, linkId,
                   [originalLink |-> originalLink,
                    unrestrictedUrl |-> unrestrictedUrl,
                    generatedAt |-> toISOString(t),
                    filename |-> filename,
                    manuallyAdded |-> manuallyAdded,
                    filesize |-> filesize]), t, ioOk)

\* Variant: the cache is saved whether or not the entry exists.
nodeStorage_updateStrmUrl_alwaysSave(S, linkId, newUnrestrictedUrl, t, ioOk) ==
  LET l == nodeStorage_loadNodeStrmCache(S)
      cache == l.cache
  IN nodeStorage_cleanupAndSaveStrmCache(l.S,
       IF linkId \in DOMAIN cache
       THEN [cache EXCEPT ![linkId].unrestrictedUrl = newUnrestrictedUrl,
                          ![linkId].generatedAt = toISOString(t)]
       ELSE cache, t, ioOk)

nodeStorage_updateStrmUrl(S, linkId, newUnrestrictedUrl, t, ioOk) ==
  LET l == nodeStorage_loadNodeStrmCache(S)
      cache == l.cache
  IN IF linkId \in DOMAIN cache
     THEN nodeStorage_cleanupAndSaveStrmCache(l.S,
            [cache EXCEPT ![linkId].unrestrictedUrl = newUnrestrictedUrl,
                          ![linkId].generatedAt = toISOString(t)], t, ioOk)
     ELSE l.S

\* getAllStrmEntries: Object.values(cache); the values stay keyed here so
\* that two equal entries are still two values.
nodeStorage_getAllStrmEntries(S) ==
  LET l == nodeStorage_loadNodeStrmCache(S)
  IN [S |-> l.S, ret |-> l.cache]

---------------------------------------------------------------------------
(* src/src/storage.js - workerStorage (KV namespace with per-key expiry) *)

\* env.CAST_MAGNET_LINK.get(key, 'json'): null once the key has expired.
kvGet(S, key, t) ==
  IF key \in DOMAIN S.kv /\ (t \div 1000) < S.kv[key].expiration
  THEN Some(S.kv[key].value) ELSE Null

\* env.CAST_MAGNET_LINK.put(key, value, {expirationTtl}); ioOk = FALSE is
\* the put rejecting.
kvPut(S, key, value, expirationTtl, t, ioOk) ==
  IF ioOk
  THEN [S EXCEPT !.kv = MapPut(S.kv, key,
                 [value |-> value, expiration |-> (t \div 1000) + expirationTtl])]
  ELSE S

\* env.CAST_MAGNET_LINK.list(): the names of the live keys.
kvList(S, t) == {k \in DOMAIN S.kv : (t \div 1000) < S.kv[k].expiration}

workerStorage_getStrmEntry(S, linkId, t) == [S |-> S, ret |-> kvGet(S, linkId, t)]

\* Variant: the put does not look at the entry the key holds.
workerStorage_addStrmEntry_overwrite(S, linkId, originalLink, unrestrictedUrl, filename, manuallyAdded, filesize, t, ioOk) ==
  kvPut(S, linkId,
        [originalLink |-> originalLink,
         unrestrictedUrl |-> unrestrictedUrl,
         generatedAt |-> toISOString(t),
         filename |-> filename,
         manuallyAdded |-> manuallyAdded,
         filesize |-> filesize],
        sevenDaysInSeconds, t, ioOk)

workerStorage_addStrmEntry(S, linkId, originalLink, unrestrictedUrl, filename, manuallyAdded, filesize, t, ioOk) ==
  LET existingEntry == kvGet(S, linkId, t)
  IN IF ~manuallyAdded /\ ~IsNull(existingEntry) /\ Val(existingEntry).manuallyAdded
     THEN kvPut(S, linkId,
                [Val(existingEntry) EXCEPT !.generatedAt = toISOString(t)],
                sevenDaysInSeconds, t, ioOk)
     ELSE kvPut(S, linkId,
                [originalLink |-> originalLink,
                 unrestrictedUrl |-> unrestrictedUrl,
                 generatedAt |-> toISOString(t),
                 filename |-> filename,
                 manuallyAdded |-> manuallyAdded,
                 filesize |-> filesize],
                sevenDaysInSeconds, t, ioOk)

\* Variant: the refreshed entry is stored under the expiry the key had.
workerStorage_updateStrmUrl_keepExpiry(S, linkId, newUnrestrictedUrl, t, ioOk) ==
  IF ~IsNull(kvGet(S, linkId, t))
  THEN [S EXCEPT !.kv[linkId].value =
          [Val(kvGet(S, linkId, t)) EXCEPT !.unrestrictedUrl = newUnrestrictedUrl,
                                           !.generatedAt = toISOString(t)]]
  ELSE S

workerStorage_updateStrmUrl(S, linkId, newUnrestrictedUrl, t, ioOk) ==
  LET entry == kvGet(S, linkId, t)
  IN IF ~IsNull(entry)
     THEN kvPut(S, linkId,
                [Val(entry) EXCEPT !.unrestrictedUrl = newUnrestrictedUrl,
                                   !.generatedAt = toISOString(t)],
                sevenDaysInSeconds, t, ioOk)
     ELSE S

\* getAllStrmEntries: list the keys, then get each one.
workerStorage_getAllStrmEntries(S, t) ==
  [S |-> S, ret |-> [k \in kvList(S, t) |-> S.kv[k].value]]

---------------------------------------------------------------------------
(* src/src/strmCache.js - the older synchronous file cache *)

loadCache(S) == IF S.file.exists THEN S.file.data ELSE EmptyMap

saveCache(S, cache, ioOk) ==
  IF ioOk THEN [S EXCEPT !.file = [exists |-> TRUE, data |-> cache]] ELSE S

cleanupOldEntries(cache, t) ==
  LET keep == {k \in DOMAIN cache : t - getTime(cache[k].generatedAt) < SEVEN_DAYS_MS}
  IN [k \in keep |-> cache[k]]

addEntry(S, linkId, originalLink, unrestrictedUrl, filename, t, ioOk) ==
  saveCache(S,
            MapPut(cleanupOldEntries(loadCache(S), t), linkId,
                   [originalLink |-> originalLink,
                    unrestrictedUrl |-> unrestrictedUrl,
                    generatedAt |-> toISOString(t),
                    filename |-> filename]),
            ioOk)

getEntry(S, linkId, t, ioOk) ==
  LET cache == cleanupOldEntries(loadCache(S), t)
  IN [S |-> saveCache(S, cache, ioOk),
      ret |-> IF linkId \in DOMAIN cache THEN Some(cache[linkId]) ELSE Null]

updateUnrestrictedUrl(S, linkId, newUnrestrictedUrl, t, ioOk) ==
  LET cache == loadCache(S)
  IN IF linkId \in DOMAIN cache
     THEN saveCache(S,
            [cache EXCEPT ![linkId].unrestrictedUrl = newUnrestrictedUrl,
                          ![linkId].generatedAt = toISOString(t)], ioOk)
     ELSE S

getAllEntries(S, t, ioOk) ==
  LET cache == cleanupOldEntries(loadCache(S), t)
  IN [S |-> saveCache(S, cache, ioOk), ret |-> cache]

---------------------------------------------------------------------------
(* The LinkCache as its callers see it: one implementation per process *)

Backings == {"node", "kv", "legacy"}

storage_getStrmEntry(S, linkId, t) ==
  CASE backing = "node" -> nodeStorage_getStrmEntry(S, linkId)
    [] backing = "kv" -> workerStorage_getStrmEntry(S, linkId, t)
    [] OTHER -> getEntry(S, linkId, t, TRUE)

storage_addStrmEntry(S, linkId, originalLink, unrestrictedUrl, filename, manuallyAdded, filesize, t, ioOk) ==
  CASE backing = "node" ->
         nodeStorage_addStrmEntry(S, linkId, originalLink, unrestrictedUrl,
                                  filename, manuallyAdded, filesize, t, ioOk)
    [] backing = "kv" ->
         workerStorage_addStrmEntry(S, linkId, originalLink, unrestrictedUrl,
                                    filename, manuallyAdded, filesize, t, ioOk)
    [] OTHER -> addEntry(S, linkId, originalLink, unrestrictedUrl, filename, t, ioOk)

storage_updateStrmUrl(S, linkId, newUnrestrictedUrl, t, ioOk) ==
  CASE backing = "node" -> nodeStorage_updateStrmUrl(S, linkId, newUnrestrictedUrl, t, ioOk)
    [] backing = "kv" -> workerStorage_updateStrmUrl(S, linkId, newUnrestrictedUrl, t, ioOk)
    [] OTHER -> updateUnrestrictedUrl(S, linkId, newUnrestrictedUrl, t, ioOk)

storage_getAllStrmEntries(S, t) ==
  CASE backing = "node" -> nodeStorage_getAllStrmEntries(S)
    [] backing = "kv" -> workerStorage_getAllStrmEntries(S, t)
    [] OTHER -> getAllEntries(S, t, TRUE)

\* The entry the backing holds for linkId, read without side effects.
held(S, linkId, t) ==
  CASE backing = "node" -> nodeStorage_getStrmEntry(S, linkId).ret
    [] backing = "kv" -> kvGet(S, linkId, t)
    [] OTHER -> IF linkId \in DOMAIN loadCache(S) THEN Some(loadCache(S)[linkId]) ELSE Null

SetStore(S) ==
  /\ nodeStrmCache' = S.mem
  /\ cacheFile' = S.file
  /\ kv' = S.kv

---------------------------------------------------------------------------
(* LinkCache operations and the clock *)

NoObs ==
  [op |-> "none", id |-> "", manual |-> FALSE, outcome |-> "", url |-> "",
   ret |-> EmptyMap, got |-> Null, served |-> Null, ucalls |-> <<>>]

\* extractLinkId: the third path part of a real-debrid.com/d/<id> link.
extractLinkId(rdLink) ==
  IF /\ rdLink.hostname = "real-debrid.com"
     /\ Len(rdLink.pathParts) >= 3
     /\ rdLink.pathParts[2] = "d"
     /\ rdLink.pathParts[3] # ""
  THEN Some(rdLink.pathParts[3]) ELSE Null

\* Links from which no identifier can be extracted.
ForeignLink == [hostname |-> "example.com", pathParts |-> <<"", "d", "L1">>]
ShortLink == [hostname |-> "real-debrid.com", pathParts |-> <<"", "d">>]
OtherPathLink == [hostname |-> "real-debrid.com", pathParts |-> <<"", "f", "L1">>]

\* Variant: the key is the last path part of the link, whatever the link.
storeByLink_unchecked(S, link, unrestrictedUrl, filename, manuallyAdded, t) ==
  storage_addStrmEntry(S, link.pathParts[Len(link.pathParts)], link,
                       unrestrictedUrl, filename, manuallyAdded, 0, t, TRUE)

\* const linkId = extractLinkId(link); if (linkId) await storage.addStrmEntry(
\* env, linkId, link, url, filename, manuallyAdded): the way every route
\* writes the cache.
storeByLink(S, link, unrestrictedUrl, filename, manuallyAdded, t) ==
  IF IsNull(extractLinkId(link)) THEN S
  ELSE storage_addStrmEntry(S, Val(extractLinkId(link)), link, unrestrictedUrl,
                            filename, manuallyAdded, 0, t, TRUE)

\* The links a route may come to store.
StoredLinks == {RdLink("L1"), ForeignLink}

\* What a caller passes to put.
PayloadA(id) ==
  [originalLink |-> RdLink(id), unrestrictedUrl |-> "u1",
   filename |-> "a.mkv", filesize |-> 0]
PayloadB(id) ==
  [originalLink |-> RdLinkAlt(id), unrestrictedUrl |-> "u2",
   filename |-> "b.mkv", filesize |-> 7]
PutInputs ==
  { [id |-> "L1", p |-> PayloadA("L1"), manuallyAdded |-> TRUE],
    [id |-> "L1", p |-> PayloadA("L1"), manuallyAdded |-> FALSE],
    [id |-> "L1", p |-> PayloadB("L1"), manuallyAdded |-> TRUE],
    [id |-> "L1", p |-> PayloadB("L1"), manuallyAdded |-> FALSE] }

\* The identifier the modelled requests write to; "L2" is an entry that an
\* earlier process may have left in the store.
WrittenIds == {"L1"}

\* The URLs an unrestrict call returns in this model.
FreshUrls == {"u1", "u3"}

\* The clock advances between requests: by a millisecond, by the freshness
\* window, or by the rest of the retention window.
Deltas == {1, FORTY_EIGHT_HOURS_MS, SEVEN_DAYS_MS - FORTY_EIGHT_HOURS_MS}

Tick(d) ==
  /\ ticks < MaxTicks
  /\ now' = now + d
  /\ ticks' = ticks + 1
  /\ obs' = NoObs
  /\ UNCHANGED <<backing, nodeStrmCache, cacheFile, kv>>
  /\ UNCHANGED pipeVars
  /\ UNCHANGED davVars
  /\ UNCHANGED writerVars
  /\ UNCHANGED twin
  /\ UNCHANGED urlAt
  /\ UNCHANGED http

\* The Node process restarts: the module-level cache is null again.
Restart ==
  /\ backing = "node"
  /\ nodeStrmCache.loaded
  /\ nodeStrmCache' = [loaded |-> FALSE, map |-> EmptyMap]
  /\ obs' = NoObs
  /\ UNCHANGED <<backing, cacheFile, kv, now, ticks>>
  /\ UNCHANGED pipeVars
  /\ UNCHANGED davVars
  /\ UNCHANGED writerVars
  /\ UNCHANGED twin
  /\ UNCHANGED urlAt
  /\ UNCHANGED http

\* A passive put on a manually added entry keeps the stored URL (storage.js
\* 22-27, 107-109); every other put stores the URL it is given.
KeepsUrl(id, manuallyAdded) ==
  /\ backing \in {"node", "kv"}
  /\ ~manuallyAdded
  /\ ~IsNull(held(Store, id, now))
  /\ Val(held(Store, id, now)).manuallyAdded

Put(id, p, manuallyAdded) ==
  /\ SetStore(storage_addStrmEntry(Store, id, p.originalLink, p.unrestrictedUrl,
                                   p.filename, manuallyAdded, p.filesize, now, TRUE))
  /\ obs' = [NoObs EXCEPT !.op = "put", !.id = id, !.manual = manuallyAdded]
  /\ UNCHANGED <<backing, now, ticks>>
  /\ UNCHANGED pipeVars
  /\ UNCHANGED davVars
  /\ UNCHANGED writerVars
  /\ UNCHANGED twin
  /\ UNCHANGED http
  /\ urlAt' = IF KeepsUrl(id, manuallyAdded) THEN urlAt ELSE [urlAt EXCEPT ![id] = now]

UpdateUrl(id, url) ==
  /\ SetStore(storage_updateStrmUrl(Store, id, url, now, TRUE))
  /\ obs' = [NoObs EXCEPT !.op = "updateUrl", !.id = id, !.url = url]
  /\ UNCHANGED <<backing, now, ticks>>
  /\ UNCHANGED pipeVars
  /\ UNCHANGED davVars
  /\ UNCHANGED writerVars
  /\ UNCHANGED twin
  /\ UNCHANGED http
  /\ urlAt' = IF ~IsNull(held(Store, id, now)) THEN [urlAt EXCEPT ![id] = now] ELSE urlAt

\* A route stores what it resolved or observed for a link; obs.got carries
\* a link that was skipped.
StoreLink(link, manuallyAdded) ==
  /\ backing \in {"node", "kv"}
  /\ SetStore(storeByLink(Store, link, "u1", "a.mkv", manuallyAdded, now))
  /\ obs' = IF IsNull(extractLinkId(link))
            THEN [NoObs EXCEPT !.op = "store", !.got = Some(link)]
            ELSE [NoObs EXCEPT !.op = "put", !.id = Val(extractLinkId(link)),
                               !.manual = manuallyAdded]
  /\ UNCHANGED <<backing, now, ticks>>
  /\ UNCHANGED pipeVars
  /\ UNCHANGED davVars
  /\ UNCHANGED writerVars
  /\ UNCHANGED twin
  /\ UNCHANGED http
  /\ urlAt' = IF \/ IsNull(extractLinkId(link))
                 \/ KeepsUrl(Val(extractLinkId(link)), manuallyAdded)
              THEN urlAt
              ELSE [urlAt EXCEPT ![Val(extractLinkId(link))] = now]

Get(id) ==
  LET g == storage_getStrmEntry(Store, id, now)
  IN /\ SetStore(g.S)
     /\ obs' = [NoObs EXCEPT !.op = "get", !.id = id, !.got = g.ret]
     /\ UNCHANGED <<backing, now, ticks>>
     /\ UNCHANGED pipeVars
     /\ UNCHANGED davVars
     /\ UNCHANGED writerVars
     /\ UNCHANGED twin
     /\ UNCHANGED urlAt
     /\ UNCHANGED http

ListAll ==
  LET g == storage_getAllStrmEntries(Store, now)
  IN /\ SetStore(g.S)
     /\ obs' = [NoObs EXCEPT !.op = "listAll", !.ret = g.ret]
     /\ UNCHANGED <<backing, now, ticks>>
     /\ UNCHANGED pipeVars
     /\ UNCHANGED davVars
     /\ UNCHANGED writerVars
     /\ UNCHANGED twin
     /\ UNCHANGED urlAt
     /\ UNCHANGED http

---------------------------------------------------------------------------
(* src/src/worker-combined.js - GET /strm/:linkId *)

StrmOutcomes == {"unrestrictFails", "updateFails", "ok"}

Redirect(url) == Some([status |-> 302, url |-> url])
NotFound == Some([status |-> 404, url |-> ""])

\* Variant: the boundary itself counts as stale.
IsStale_inclusive(age) == age >= FORTY_EIGHT_HOURS_MS

\* An entry is refreshed before being served when it is older than this.
IsStale(age) == age > FORTY_EIGHT_HOURS_MS

\* The whole handler.  outcome and newUnrestrictedUrl are what the upstream
\* unrestrict call and the cache update do when they are reached.
StrmHandler(S, linkId, t, outcome, newUnrestrictedUrl) ==
  LET g == storage_getStrmEntry(S, linkId, t)
      cacheEntry == g.ret
      age == t - getTime(Val(cacheEntry).generatedAt)
  IN IF IsNull(cacheEntry)
     THEN [S |-> g.S, served |-> NotFound, ucalls |-> <<>>]
     ELSE IF IsStale(age)
     THEN CASE outcome = "unrestrictFails" ->
                 [S |-> g.S, served |-> Redirect(Val(cacheEntry).unrestrictedUrl),
                  ucalls |-> <<Val(cacheEntry).originalLink>>]
            [] outcome = "updateFails" ->
                 [S |-> storage_updateStrmUrl(g.S, linkId, newUnrestrictedUrl, t, FALSE),
                  served |-> Redirect(Val(cacheEntry).unrestrictedUrl),
                  ucalls |-> <<Val(cacheEntry).originalLink>>]
            [] OTHER ->
                 [S |-> storage_updateStrmUrl(g.S, linkId, newUnrestrictedUrl, t, TRUE),
                  served |-> Redirect(newUnrestrictedUrl),
                  ucalls |-> <<Val(cacheEntry).originalLink>>]
     ELSE [S |-> g.S, served |-> Redirect(Val(cacheEntry).unrestrictedUrl),
           ucalls |-> <<>>]

Strm(id, outcome, url) ==
  /\ backing \in {"node", "kv"}
  /\ LET h == StrmHandler(Store, id, now, outcome, url)
     IN /\ SetStore(h.S)
        /\ obs' = [NoObs EXCEPT !.op = "strm", !.id = id,
                                !.outcome = IF Len(h.ucalls) = 0 THEN "" ELSE outcome,
                                !.url = IF Len(h.ucalls) = 0 \/ outcome = "unrestrictFails"
                                        THEN "" ELSE url,
                                !.served = h.served, !.ucalls = h.ucalls]
  /\ UNCHANGED <<backing, now, ticks>>
  /\ UNCHANGED pipeVars
  /\ UNCHANGED davVars
  /\ UNCHANGED writerVars
  /\ UNCHANGED twin
  /\ UNCHANGED http
  /\ urlAt' = IF held(StrmHandler(Store, id, now, outcome, url).S, id, now) # held(Store, id, now)
              THEN [urlAt EXCEPT ![id] = now]
              ELSE urlAt

---------------------------------------------------------------------------
(* Specification of the LinkCache and the /strm surface *)

NoRun ==
  [kind |-> "none", viaSelect |-> FALSE, caller |-> Null, userIP |-> Null, before |-> <<>>,
   torrentId |-> "",
   fileId |-> <<>>, info |-> Null, originalLink |-> Null, unrestrictedUrl |-> "",
   filename |-> "", size |-> 0]
NoResult ==
  [kind |-> "none", message |-> "", files |-> <<>>, torrentId |-> "",
   title |-> "", hash |-> "", filename |-> "", bytes |-> 0]

NoFeed == [kind |-> "none", data |-> <<>>]
NoDav ==
  [op |-> "none", upOk |-> TRUE, name |-> <<>>, files |-> <<>>, status |-> 0,
   body |-> Null, upstream |-> <<>>, answer |-> Null]
DavIdle ==
  /\ feed = NoFeed
  /\ dav = NoDav

\* No cache object exists (nodeStrmCache = null) and no write is in progress.
NoHeap == [objs |-> <<>>, ents |-> <<>>, mem |-> 0]
WritersIdle ==
  /\ heap = NoHeap
  /\ writers = <<>>

\* Every entry a process finds in the store holds a URL obtained at time 0.
NoUrlAt == [id \in LinkIds |-> 0]

\* No request is being answered.
NoHttp ==
  [phase |-> "idle", method |-> "", path |-> <<>>, creds |-> Null,
   status |-> 0, performed |-> "none"]

\* No call has been made on both backings.
NoTwin == [op |-> "none", id |-> "", node |-> Null, kv |-> Null]

PipeIdle ==
  /\ variant = "none"
  /\ pc = "idle"
  /\ run = NoRun
  /\ calls = <<>>
  /\ result = NoResult
  /\ sessions = {}

\* What an earlier process, at time 0, left in the store for "L2".
LeftEntry ==
  [originalLink |-> RdLink("L2"), unrestrictedUrl |-> "u2",
   generatedAt |-> toISOString(0), filename |-> "c.mkv",
   manuallyAdded |-> TRUE, filesize |-> 0]
LeftLegacyEntry ==
  [originalLink |-> RdLink("L2"), unrestrictedUrl |-> "u2",
   generatedAt |-> toISOString(0), filename |-> "c.mkv"]

StoreInit ==
  /\ nodeStrmCache = [loaded |-> FALSE, map |-> EmptyMap]
  /\ \/ cacheFile = [exists |-> FALSE, data |-> EmptyMap] /\ kv = EmptyMap
     \/ /\ backing = "node"
        /\ cacheFile = [exists |-> TRUE, data |-> MapPut(EmptyMap, "L2", LeftEntry)]
        /\ kv = EmptyMap
     \/ /\ backing = "legacy"
        /\ cacheFile = [exists |-> TRUE, data |-> MapPut(EmptyMap, "L2", LeftLegacyEntry)]
        /\ kv = EmptyMap
     \/ /\ backing = "kv"
        /\ cacheFile = [exists |-> FALSE, data |-> EmptyMap]
        /\ kv = MapPut(EmptyMap, "L2",
                       [value |-> LeftEntry, expiration |-> sevenDaysInSeconds])

CacheInit ==
  /\ backing \in Backings
  /\ StoreInit
  /\ now = 0
  /\ ticks = 0
  /\ obs = NoObs
  /\ PipeIdle
  /\ DavIdle
  /\ WritersIdle
  /\ twin = NoTwin
  /\ urlAt = NoUrlAt
  /\ http = NoHttp

CacheNext ==
  \/ \E d \in Deltas : Tick(d)
  \/ Restart
  \/ \E i \in PutInputs : Put(i.id, i.p, i.manuallyAdded)
  \/ \E id \in WrittenIds, u \in FreshUrls : UpdateUrl(id, u)
  \/ \E id \in LinkIds : Get(id)
  \/ ListAll
  \/ \E id \in WrittenIds, o \in StrmOutcomes, u \in FreshUrls : Strm(id, o, u)

SpecCache == CacheInit /\ [][CacheNext]_vars

---------------------------------------------------------------------------
(* Properties of the LinkCache and the /strm surface (SpecCache) *)

HeldNow(id) == held(Store, id, now)
AgeNow(id) == now - getTime(Val(HeldNow(id)).generatedAt)

\* The step is a put with manuallyAdded = false on an identifier whose
\* entry is manually added (storage.js backings).
PassivePutOnManual(id) ==
  /\ backing \in {"node", "kv"}
  /\ obs'.op = "put" /\ obs'.id = id /\ ~obs'.manual
  /\ ~IsNull(HeldNow(id))
  /\ Val(HeldNow(id)).manuallyAdded

\* C1: a put with manuallyAdded = false on an identifier that holds a
\* manually added entry leaves originalLink, unrestrictedUrl, filename,
\* filesize and manuallyAdded as they were and sets generatedAt to the time
\* of the put, on the local-file and on the KV backing.
C1_PassivePutKeepsManualPayload ==
  [][\A id \in LinkIds :
       PassivePutOnManual(id) =>
         HeldNow(id)' = Some([Val(HeldNow(id)) EXCEPT !.generatedAt = toISOString(now)])
    ]_vars

\* A passive put has just acted, after the clock moved, on an entry that is
\* still manually added.
C1_Witness ==
  /\ backing \in {"node", "kv"}
  /\ obs.op = "put" /\ ~obs.manual /\ ticks > 0
  /\ ~IsNull(HeldNow(obs.id))
  /\ Val(HeldNow(obs.id)).manuallyAdded
  /\ Val(HeldNow(obs.id)).generatedAt = toISOString(now)

\* C2: listAll never returns an entry whose generatedAt lies more than
\* 7 x 24h before the time of the call.
C2_ListAllWithinRetention ==
  obs.op = "listAll" =>
    \A k \in DOMAIN obs.ret : now - getTime(obs.ret[k].generatedAt) <= SEVEN_DAYS_MS

\* The step is GET /strm/:id on an identifier that has an entry.
StrmOnExisting(id) ==
  /\ obs'.op = "strm" /\ obs'.id = id
  /\ ~IsNull(HeldNow(id))

\* C9: refreshIfStale on an existing entry serves the cached URL without
\* any unrestrict call when the entry's age is at most 48h, and attempts
\* exactly one unrestrict call, on the entry's originalLink, when the age
\* exceeds 48h (by as little as one millisecond).
C9_RefreshBoundary ==
  [][\A id \in LinkIds :
       StrmOnExisting(id) =>
         /\ AgeNow(id) <= FORTY_EIGHT_HOURS_MS =>
              /\ obs'.ucalls = <<>>
              /\ obs'.served = Redirect(Val(HeldNow(id)).unrestrictedUrl)
         /\ AgeNow(id) > FORTY_EIGHT_HOURS_MS =>
              obs'.ucalls = <<Val(HeldNow(id)).originalLink>>
    ]_vars

\* The handler has just attempted a refresh of an entry that is one
\* millisecond past the 48h boundary (the attempt failed, so the entry still
\* shows its age).
C9_Witness ==
  /\ obs.op = "strm" /\ obs.outcome = "unrestrictFails"
  /\ Len(obs.ucalls) = 1
  /\ ~IsNull(HeldNow(obs.id))
  /\ AgeNow(obs.id) = FORTY_EIGHT_HOURS_MS + 1
  /\ obs.served = Redirect(Val(HeldNow(obs.id)).unrestrictedUrl)

\* The handler has just served an entry of age exactly 48h from the cache.
C9_BoundaryFreshReached ==
  /\ obs.op = "strm" /\ obs.ucalls = <<>>
  /\ ~IsNull(HeldNow(obs.id))
  /\ AgeNow(obs.id) = FORTY_EIGHT_HOURS_MS

\* C10: refreshIfStale on an existing stale entry always answers with a
\* redirect; when the unrestrict call or the cache update fails it serves
\* the pre-refresh URL and the entry is unchanged; when both succeed it
\* serves the new URL and the entry holds it with generatedAt = now.
C10_RefreshFallback ==
  [][\A id \in LinkIds :
       (StrmOnExisting(id) /\ AgeNow(id) > FORTY_EIGHT_HOURS_MS) =>
         /\ obs'.outcome \in {"unrestrictFails", "updateFails"} =>
              /\ obs'.served = Redirect(Val(HeldNow(id)).unrestrictedUrl)
              /\ HeldNow(id)' = HeldNow(id)
         /\ obs'.outcome = "ok" =>
              /\ obs'.served = Redirect(obs'.url)
              /\ HeldNow(id)' =
                   Some([Val(HeldNow(id)) EXCEPT !.unrestrictedUrl = obs'.url,
                                                 !.generatedAt = toISOString(now)])
    ]_vars

---------------------------------------------------------------------------
(* The torrent resolution pipeline: src/src/worker-combined.js 203-310     *)
(* (variant "combined", which writes the LinkCache) and src/src/strmCache.js *)
(* 310-452 (variant "app", which has no LinkCache).  A step is the answer  *)
(* to the pending await together with the synchronous code that follows   *)
(* it, up to the next await.                                               *)

Variants == {"combined", "app"}

\* a || b on numbers
JsOr(a, b) == IF a # 0 THEN a ELSE b

\* Number.prototype.toString / String.prototype.toString of an id: its digits.
toString(n) == IF n < 10 THEN <<n>> ELSE <<n \div 10, n % 10>>

\* A file counts as large when its size exceeds 2 MiB.
IsLarge(f) == JsOr(f.bytes, JsOr(f.size, 0)) > TWO_MB

\* Variant: a file of exactly 2 MiB counts as large.
getAutoSelectFile_inclusive(files) ==
  IF Len(files) = 0 THEN Null
  ELSE IF Len(files) = 1 THEN Some(files[1])
  ELSE LET largeFiles ==
             SelectSeq(files, LAMBDA f : JsOr(f.bytes, JsOr(f.size, 0)) >= TWO_MB)
       IN IF Len(largeFiles) = 1 THEN Some(largeFiles[1]) ELSE Null

\* Variant: the first large file is taken when several are large.
getAutoSelectFile_first(files) ==
  IF Len(files) = 0 THEN Null
  ELSE IF Len(files) = 1 THEN Some(files[1])
  ELSE LET largeFiles == SelectSeq(files, IsLarge)
       IN IF Len(largeFiles) >= 1 THEN Some(largeFiles[1]) ELSE Null

getAutoSelectFile(files) ==
  IF Len(files) = 0 THEN Null
  ELSE IF Len(files) = 1 THEN Some(files[1])
  ELSE LET largeFiles == SelectSeq(files, IsLarge)
       IN IF Len(largeFiles) = 1 THEN Some(largeFiles[1]) ELSE Null

\* What the upstream file list can look like before a selection.
ONE_MIB == 1024 * 1024
FileKinds ==
  { [bytes |-> ONE_MIB, size |-> 0],
    [bytes |-> TWO_MB, size |-> 0],
    [bytes |-> TWO_MB + 1, size |-> 0],
    [bytes |-> 0, size |-> 5 * 512 * 1024] }
PathOf(i) == <<"f1", "f2", "f3", "f4", "f5", "f6">>[i]
MkFile(i, k, sel) ==
  [id |-> i, path |-> PathOf(i), bytes |-> k.bytes, size |-> k.size, selected |-> sel]
FileLists ==
  UNION { { [i \in 1..n |-> MkFile(i, ks[i], 0)] : ks \in [1..n -> FileKinds] }
          : n \in 0..MaxFiles }
\* ... and after one: every file large, at most one of them marked selected.
SelectedFileLists ==
  UNION { { [i \in 1..n |-> MkFile(i, [bytes |-> TWO_MB + i, size |-> 0],
                                    IF i = k THEN 1 ELSE 0)]
            : k \in 0..n }
          : n \in 0..MaxFiles }

LinkLists ==
  { <<>>, <<RdLink("L1")>>, <<RdLink("L2"), RdLink("L1")>>,
    <<ForeignLink>>, <<ShortLink>>, <<OtherPathLink>> }

MkInfo(id, status, files, links) ==
  [id |-> id, status |-> status, files |-> files, links |-> links,
   filename |-> "pack", bytes |-> 9 * ONE_MIB, hash |-> "H1"]

\* Answers of GET /torrents/info/:id.
InfosBeforeSelection(id) ==
  { MkInfo(id, "waiting_files_selection", fs, <<>>) : fs \in FileLists }
InfosOther(id) ==
  { MkInfo(id, IF Len(ls) = 0 THEN "downloading" ELSE "downloaded", fs, ls) :
      fs \in SelectedFileLists, ls \in LinkLists }

\* What the user submits, and what addTorrent sends (rdClient.js 36-47).
MagnetInputs ==
  { [scheme |-> "magnet:", body |-> <<"?xt=urn:btih:", "H1">>],
    [scheme |-> "", body |-> <<"H1">>] }
addTorrent_magnet(magnetOrHash) ==
  IF magnetOrHash.scheme = "magnet:" THEN magnetOrHash
  ELSE [scheme |-> "magnet:", body |-> <<"?xt=urn:btih:">> \o magnetOrHash.body]

Call(op, a, b) == <<op, a, b>>
Issue(c) == calls' = Append(calls, c)
Fail(message) ==
  /\ result' = [NoResult EXCEPT !.kind = "error", !.message = message]
  /\ pc' = "done"

\* Variant: a failed request is sent once more.
UpstreamFails_retry ==
  IF Len(calls) < 12
  THEN /\ calls' = Append(calls, calls[Len(calls)])
       /\ UNCHANGED <<pc, result>>
  ELSE Fail("Real-Debrid API request failed") /\ UNCHANGED calls

\* rdApiCall throws on a non-2xx answer (rdClient.js 12-27); nothing in the
\* pipeline catches it, the route handler reports it.
UpstreamFails ==
  /\ Fail("Real-Debrid API request failed")
  /\ UNCHANGED calls

---------------------------------------------------------------------------
(* ipUtils.js - the caller's address.  An address text is modelled by what  *)
(* the checks read of it: whether it is empty or the word 'unknown',        *)
(* whether it carries the ::ffff: prefix, and the numbers parseInt gives    *)
(* for the parts of split('.') (no part when the text starts with no        *)
(* digit).                                                                  *)

IpText(kind, mapped, parts) == [kind |-> kind, mapped |-> mapped, parts |-> parts]
Ipv4(a, b, c, d) == IpText("digits", FALSE, <<a, b, c, d>>)
UnknownIp == IpText("unknown", FALSE, <<>>)

\* What the request carries: the cf-connecting-ip header, the socket's
\* remoteAddress, the x-forwarded-for list and the x-real-ip header.
Context(cf, remoteAddress, xForwardedFor, xRealIP) ==
  [cf |-> cf, remoteAddress |-> remoteAddress, xForwardedFor |-> xForwardedFor,
   xRealIP |-> xRealIP]

getUserIP(c) ==
  IF ~IsNull(c.cf) THEN Val(c.cf)
  ELSE IF ~IsNull(c.remoteAddress)
       THEN [Val(c.remoteAddress) EXCEPT !.mapped = FALSE]   \* replace(/^::ffff:/, '')
       ELSE IF Len(c.xForwardedFor) > 0
            THEN c.xForwardedFor[1]
            ELSE IF ~IsNull(c.xRealIP) THEN Val(c.xRealIP) ELSE UnknownIp

isPublicIP(ip) ==
  IF ip.kind \in {"empty", "unknown"} THEN FALSE
  ELSE IF ip.mapped \/ ip.kind # "digits" THEN FALSE          \* !/^\\d/.test(ip)
  ELSE IF Len(ip.parts) # 4 THEN FALSE
  ELSE LET firstOctet == ip.parts[1]
           secondOctet == ip.parts[2]
       IN IF firstOctet = 10 THEN FALSE
          ELSE IF firstOctet = 172 /\ secondOctet >= 16 /\ secondOctet <= 31 THEN FALSE
          ELSE IF firstOctet = 192 /\ secondOctet = 168 THEN FALSE
          ELSE IF firstOctet = 127 THEN FALSE
          ELSE IF firstOctet = 169 /\ secondOctet = 254 THEN FALSE
          ELSE IF firstOctet = 0 THEN FALSE
          ELSE IF firstOctet >= 224 THEN FALSE
          ELSE TRUE

getPublicIP(c) == IF isPublicIP(getUserIP(c)) THEN Some(getUserIP(c)) ELSE Null

\* The requests of the model: no address at all, a public address in the
\* cf-connecting-ip header, a private address on the socket.
Callers ==
  { Context(Null, Null, <<>>, Null),
    Context(Some(Ipv4(203, 0, 113, 7)), Null, <<>>, Null),
    Context(Null, Some(IpText("digits", TRUE, <<172, 31, 0, 5>>)), <<>>, Null) }

\* The entry the LinkCache holds for each identifier; a run records it when
\* it begins, for the properties that compare the cache with it.
HeldAll == [id \in LinkIds |-> held(Store, id, now)]

\* The route handlers: POST /add (resolve) and POST /add/select
\* (completeSelection).  Those of strmCache.js pass getPublicIP(c) on, those
\* of worker-combined.js pass no address.
RouteUserIP(c) == IF variant = "app" THEN getPublicIP(c) ELSE Null

Resolve(magnetOrHash, c) ==
  /\ pc = "idle"
  /\ run' = [NoRun EXCEPT !.kind = "resolve", !.caller = Some(c),
                          !.userIP = RouteUserIP(c), !.before = HeldAll]
  /\ Issue(Call("addTorrent", addTorrent_magnet(magnetOrHash), Null))
  /\ pc' = "addTorrent"
  /\ UNCHANGED <<variant, result, sessions>>
  /\ UNCHANGED cacheVars
  /\ UNCHANGED davVars
  /\ UNCHANGED writerVars
  /\ UNCHANGED twin
  /\ UNCHANGED urlAt
  /\ UNCHANGED http

CompleteSelection(torrentId, fileId, c) ==
  /\ pc = "idle"
  /\ run' = [NoRun EXCEPT !.kind = "completeSelection", !.viaSelect = TRUE,
                          !.caller = Some(c), !.userIP = RouteUserIP(c),
                          !.before = HeldAll,
                          !.torrentId = torrentId, !.fileId = fileId]
  /\ Issue(Call("selectFiles", torrentId, fileId))
  /\ pc' = "selectFiles"
  /\ UNCHANGED <<variant, result, sessions>>
  /\ UNCHANGED cacheVars
  /\ UNCHANGED davVars
  /\ UNCHANGED writerVars
  /\ UNCHANGED twin
  /\ UNCHANGED urlAt
  /\ UNCHANGED http

AddTorrentFails ==
  /\ pc = "addTorrent"
  /\ UpstreamFails
  /\ UNCHANGED <<variant, run, sessions>>
  /\ UNCHANGED cacheVars
  /\ UNCHANGED davVars
  /\ UNCHANGED writerVars
  /\ UNCHANGED twin
  /\ UNCHANGED urlAt
  /\ UNCHANGED http

AddTorrentReturns(id) ==
  /\ pc = "addTorrent"
  /\ id \notin sessions
  /\ sessions' = sessions \cup {id}
  /\ run' = [run EXCEPT !.torrentId = id]
  /\ pc' = "settle"
  /\ UNCHANGED <<variant, calls, result>>
  /\ UNCHANGED cacheVars
  /\ UNCHANGED davVars
  /\ UNCHANGED writerVars
  /\ UNCHANGED twin
  /\ UNCHANGED urlAt
  /\ UNCHANGED http

\* The 2000 ms timer fires and the status poll is issued.
Settle ==
  /\ pc = "settle"
  /\ now' = now + SETTLE_DELAY_MS
  /\ calls' = calls \o <<Call("settle", Null, Null),
                         Call("getTorrentInfo", run.torrentId, Null)>>
  /\ pc' = "getTorrentInfo"
  /\ UNCHANGED <<variant, run, result, sessions>>
  /\ UNCHANGED <<backing, nodeStrmCache, cacheFile, kv, ticks, obs>>
  /\ UNCHANGED davVars
  /\ UNCHANGED writerVars
  /\ UNCHANGED twin
  /\ UNCHANGED urlAt
  /\ UNCHANGED http

GetTorrentInfoFails ==
  /\ pc = "getTorrentInfo"
  /\ UpstreamFails
  /\ UNCHANGED <<variant, run, sessions>>
  /\ UNCHANGED cacheVars
  /\ UNCHANGED davVars
  /\ UNCHANGED writerVars
  /\ UNCHANGED twin
  /\ UNCHANGED urlAt
  /\ UNCHANGED http

\* Variant: the session is deleted as soon as its links are known.
ToUnrestrict_deleteFirst(info, noLinks) ==
  IF Len(info.links) = 0
  THEN /\ Fail(noLinks)
       /\ run' = [run EXCEPT !.info = Some(info)]
       /\ UNCHANGED calls
  ELSE /\ run' = [run EXCEPT !.info = Some(info), !.originalLink = Some(info.links[1])]
       /\ calls' = calls \o <<Call("deleteTorrent", info.id, Null),
                              Call("unrestrictLink", info.links[1],
                                   IF variant = "app" THEN run.userIP ELSE Null)>>
       /\ pc' = "unrestrictLink"
       /\ UNCHANGED result

\* Variant: the links are not checked for being there.
ToUnrestrict_noCheck(info, noLinks) ==
  /\ run' = [run EXCEPT !.info = Some(info),
                        !.originalLink = IF Len(info.links) = 0 THEN Null
                                         ELSE Some(info.links[1])]
  /\ Issue(Call("unrestrictLink",
                IF Len(info.links) = 0 THEN Null ELSE info.links[1],
                IF variant = "app" THEN run.userIP ELSE Null))
  /\ pc' = "unrestrictLink"
  /\ UNCHANGED result

\* links[0] is unrestricted next, or there is nothing to unrestrict.
ToUnrestrict(info, noLinks) ==
  IF Len(info.links) = 0
  THEN /\ Fail(noLinks)
       /\ run' = [run EXCEPT !.info = Some(info)]
       /\ UNCHANGED calls
  ELSE /\ run' = [run EXCEPT !.info = Some(info), !.originalLink = Some(info.links[1])]
       /\ Issue(Call("unrestrictLink", info.links[1],
                     IF variant = "app" THEN run.userIP ELSE Null))
       /\ pc' = "unrestrictLink"
       /\ UNCHANGED result

\* processMagnet after its getTorrentInfo.
PollReturns(info) ==
  /\ pc = "getTorrentInfo"
  /\ ~run.viaSelect
  /\ run.torrentId \in sessions
  /\ IF info.status = "waiting_files_selection"
     THEN LET fileToSelect == getAutoSelectFile(info.files)
          IN IF ~IsNull(fileToSelect)
             THEN /\ run' = [run EXCEPT !.info = Some(info), !.viaSelect = TRUE,
                                        !.fileId = toString(Val(fileToSelect).id)]
                  /\ Issue(Call("selectFiles", run.torrentId,
                                toString(Val(fileToSelect).id)))
                  /\ pc' = "selectFiles"
                  /\ UNCHANGED result
             ELSE /\ run' = [run EXCEPT !.info = Some(info)]
                  /\ result' = [NoResult EXCEPT !.kind = "pending",
                                                !.files = info.files,
                                                !.torrentId = run.torrentId,
                                                !.title = info.filename]
                  /\ pc' = "done"
                  /\ UNCHANGED calls
     ELSE ToUnrestrict(info, "No links available for torrent")
  /\ UNCHANGED <<variant, sessions>>
  /\ UNCHANGED cacheVars
  /\ UNCHANGED davVars
  /\ UNCHANGED writerVars
  /\ UNCHANGED twin
  /\ UNCHANGED urlAt
  /\ UNCHANGED http

SelectFilesFails ==
  /\ pc = "selectFiles"
  /\ UpstreamFails
  /\ UNCHANGED <<variant, run, sessions>>
  /\ UNCHANGED cacheVars
  /\ UNCHANGED davVars
  /\ UNCHANGED writerVars
  /\ UNCHANGED twin
  /\ UNCHANGED urlAt
  /\ UNCHANGED http

\* processSelectedFile after selectFiles: the first poll's answer is out of
\* scope from here on.
SelectFilesReturns ==
  /\ pc = "selectFiles"
  /\ run.torrentId \in sessions
  /\ run' = [run EXCEPT !.info = Null]
  /\ pc' = "settle"
  /\ UNCHANGED <<variant, calls, result, sessions>>
  /\ UNCHANGED cacheVars
  /\ UNCHANGED davVars
  /\ UNCHANGED writerVars
  /\ UNCHANGED twin
  /\ UNCHANGED urlAt
  /\ UNCHANGED http

\* Variant: a poll that finds no links waits and polls again.
PollAfterSelectionReturns_repoll(updatedInfo) ==
  /\ pc = "getTorrentInfo"
  /\ run.viaSelect
  /\ run.torrentId \in sessions
  /\ IF Len(updatedInfo.links) = 0 /\ Len(calls) < 8
     THEN /\ pc' = "settle"
          /\ UNCHANGED <<run, calls, result>>
     ELSE ToUnrestrict(updatedInfo, "No links available after file selection")
  /\ UNCHANGED <<variant, sessions>>
  /\ UNCHANGED cacheVars
  /\ UNCHANGED davVars
  /\ UNCHANGED writerVars
  /\ UNCHANGED twin
  /\ UNCHANGED urlAt
  /\ UNCHANGED http

\* processSelectedFile after its getTorrentInfo.
PollAfterSelectionReturns(updatedInfo) ==
  /\ pc = "getTorrentInfo"
  /\ run.viaSelect
  /\ run.torrentId \in sessions
  /\ ToUnrestrict(updatedInfo, "No links available after file selection")
  /\ UNCHANGED <<variant, sessions>>
  /\ UNCHANGED cacheVars
  /\ UNCHANGED davVars
  /\ UNCHANGED writerVars
  /\ UNCHANGED twin
  /\ UNCHANGED urlAt
  /\ UNCHANGED http

UnrestrictLinkFails ==
  /\ pc = "unrestrictLink"
  /\ UpstreamFails
  /\ UNCHANGED <<variant, run, sessions>>
  /\ UNCHANGED cacheVars
  /\ UNCHANGED davVars
  /\ UNCHANGED writerVars
  /\ UNCHANGED twin
  /\ UNCHANGED urlAt
  /\ UNCHANGED http

\* Variant: the file is looked up by id alone, selected or not.
SelectedFile_anyFlag(r) ==
  IF r.viaSelect
  THEN IF Len(SelectSeq(Val(r.info).files, LAMBDA f : toString(f.id) = r.fileId)) = 0
       THEN Null
       ELSE Some(SelectSeq(Val(r.info).files, LAMBDA f : toString(f.id) = r.fileId)[1])
  ELSE IF variant = "app" /\ Len(SelectSeq(Val(r.info).files, LAMBDA f : f.selected = 1)) > 0
       THEN Some(SelectSeq(Val(r.info).files, LAMBDA f : f.selected = 1)[1])
       ELSE Null

\* The file whose name and size are reported.
SelectedFile(r) ==
  LET info == Val(r.info)
      hits == IF r.viaSelect
              THEN SelectSeq(info.files,
                             LAMBDA f : toString(f.id) = r.fileId /\ f.selected = 1)
              ELSE IF variant = "app"
                   THEN SelectSeq(info.files, LAMBDA f : f.selected = 1)
                   ELSE <<>>
  IN \* files.find(...): the first match, if any
     IF Len(hits) = 0 THEN Null ELSE Some(hits[1])

\* Whether the run writes the LinkCache after unrestricting.
WritesCache(r) ==
  variant = "combined" /\ ~IsNull(extractLinkId(Val(r.originalLink)))

\* Variant: the run deletes the session an earlier request left pending.
DeletedId_leftSession(r) == "T0"

\* The torrent id the run deletes: torrentInfo.id in processMagnet, the
\* torrentId argument in processSelectedFile.
DeletedId(r) == IF r.viaSelect THEN r.torrentId ELSE Val(r.info).id

UnrestrictLinkReturns(unrestrictedUrl) ==
  /\ pc = "unrestrictLink"
  /\ LET selectedFile == SelectedFile(run)
         info == Val(run.info)
         r2 == [run EXCEPT
                  !.unrestrictedUrl = unrestrictedUrl,
                  !.filename = IF IsNull(selectedFile) THEN info.filename
                               ELSE Val(selectedFile).path,
                  !.size = IF IsNull(selectedFile) THEN info.bytes
                           ELSE JsOr(Val(selectedFile).bytes, Val(selectedFile).size)]
     IN /\ run' = r2
        /\ IF WritesCache(run)
           THEN /\ pc' = "addStrmEntry"
                /\ UNCHANGED calls
           ELSE /\ Issue(Call("deleteTorrent", DeletedId(run), Null))
                /\ pc' = "deleteTorrent"
  /\ UNCHANGED <<variant, result, sessions>>
  /\ UNCHANGED cacheVars
  /\ UNCHANGED davVars
  /\ UNCHANGED writerVars
  /\ UNCHANGED twin
  /\ UNCHANGED urlAt
  /\ UNCHANGED http

\* storage.addStrmEntry(c.env, linkId, originalLink, unrestrictedUrl,
\* filename, true) settles; ioOk = FALSE is the write rejecting.
AddStrmEntryReturns(ioOk) ==
  /\ pc = "addStrmEntry"
  /\ LET linkId == Val(extractLinkId(Val(run.originalLink)))
     IN /\ SetStore(storage_addStrmEntry(Store, linkId, Val(run.originalLink),
                                         run.unrestrictedUrl, run.filename,
                                         TRUE, 0, now, ioOk))
        /\ IF ioOk
           THEN /\ calls' = calls \o <<Call("addStrmEntry", linkId, Null),
                                       Call("deleteTorrent", DeletedId(run), Null)>>
                /\ pc' = "deleteTorrent"
                /\ UNCHANGED result
           ELSE /\ Issue(Call("addStrmEntryFailed", linkId, Null))
                /\ Fail("write failed")
  /\ UNCHANGED <<variant, run, sessions>>
  /\ UNCHANGED <<backing, now, ticks, obs>>
  /\ UNCHANGED davVars
  /\ UNCHANGED writerVars
  /\ UNCHANGED twin
  /\ UNCHANGED urlAt
  /\ UNCHANGED http

DeleteTorrentFails ==
  /\ pc = "deleteTorrent"
  /\ UpstreamFails
  /\ UNCHANGED <<variant, run, sessions>>
  /\ UNCHANGED cacheVars
  /\ UNCHANGED davVars
  /\ UNCHANGED writerVars
  /\ UNCHANGED twin
  /\ UNCHANGED urlAt
  /\ UNCHANGED http

\* 'Media ready to cast'
DeleteTorrentReturns ==
  /\ pc = "deleteTorrent"
  /\ DeletedId(run) \in sessions
  /\ sessions' = sessions \ {DeletedId(run)}
  /\ result' = [NoResult EXCEPT !.kind = "success",
                                !.hash = Val(run.info).hash,
                                !.filename = run.filename,
                                !.bytes = IF run.viaSelect \/ variant = "app"
                                          THEN run.size ELSE Val(run.info).bytes]
  /\ pc' = "done"
  /\ UNCHANGED <<variant, run, calls>>
  /\ UNCHANGED cacheVars
  /\ UNCHANGED davVars
  /\ UNCHANGED writerVars
  /\ UNCHANGED twin
  /\ UNCHANGED urlAt
  /\ UNCHANGED http

\* A request served before this one: the listing observes "L1" in the
\* recent-downloads feed and writes it with manuallyAdded = false
\* (worker-combined.js 389-395).
Observe ==
  /\ variant = "combined"
  /\ pc = "idle"
  /\ IsNull(held(Store, "L1", now))
  /\ SetStore(storage_addStrmEntry(Store, "L1", RdLink("L1"), "u2", "b.mkv",
                                   FALSE, 0, now, TRUE))
  /\ UNCHANGED <<backing, now, ticks, obs>>
  /\ UNCHANGED pipeVars
  /\ UNCHANGED davVars
  /\ UNCHANGED writerVars
  /\ UNCHANGED twin
  /\ UNCHANGED urlAt
  /\ UNCHANGED http

PipeInit ==
  /\ variant \in Variants
  /\ backing \in (IF variant = "combined" THEN {"node", "kv"} ELSE {"none"})
  /\ StoreInit
  /\ now = 0
  /\ ticks = 0
  /\ obs = NoObs
  /\ pc = "idle"
  /\ run = NoRun
  /\ calls = <<>>
  /\ result = NoResult
  /\ sessions = {"T0"}
  /\ DavIdle
  /\ WritersIdle
  /\ twin = NoTwin
  /\ urlAt = NoUrlAt
  /\ http = NoHttp

PipeNext ==
  \/ \E m \in MagnetInputs, c \in Callers : Resolve(m, c)
  \/ \E t \in {"T0", "T9"}, f \in {toString(i) : i \in 1..MaxFiles},
        c \in Callers :
       CompleteSelection(t, f, c)
  \/ AddTorrentFails
  \/ AddTorrentReturns("T1")
  \/ Settle
  \/ GetTorrentInfoFails
  \/ /\ pc = "getTorrentInfo"
     /\ \E info \in InfosBeforeSelection(run.torrentId) \cup InfosOther(run.torrentId) :
          PollReturns(info)
  \/ SelectFilesFails
  \/ SelectFilesReturns
  \/ /\ pc = "getTorrentInfo"
     /\ \E info \in InfosOther(run.torrentId) : PollAfterSelectionReturns(info)
  \/ UnrestrictLinkFails
  \/ \E u \in FreshUrls : UnrestrictLinkReturns(u)
  \/ \E ok \in BOOLEAN : AddStrmEntryReturns(ok)
  \/ DeleteTorrentFails
  \/ DeleteTorrentReturns
  \/ Observe

SpecPipe == PipeInit /\ [][PipeNext]_vars

---------------------------------------------------------------------------
(* Properties of the pipeline *)

Ops(c) == [i \in 1..Len(c) |-> c[i][1]]
Count(c, op) == Cardinality({i \in 1..Len(c) : c[i][1] = op})
UpstreamOps == {"addTorrent", "getTorrentInfo", "selectFiles", "unrestrictLink",
                "deleteTorrent"}
Upstream(c) == SelectSeq(c, LAMBDA x : x[1] \in UpstreamOps)
Succeeded == pc = "done" /\ result.kind = "success"
LargeIdx(files) ==
  {i \in 1..Len(files) :
     (IF files[i].bytes # 0 THEN files[i].bytes ELSE files[i].size) > 2 * 1024 * 1024}

\* The first poll of this resolve run said waiting_files_selection, and the
\* run has not gone past the selection request.
PolledWaiting ==
  /\ run.kind = "resolve"
  /\ ~IsNull(run.info)
  /\ Val(run.info).status = "waiting_files_selection"

\* C3: whenever a run reports success, the LinkCache holds an entry under the
\* link id of the session's first link, manually added, with that link as
\* originalLink and the URL the run's unrestrict call returned.
C3_SuccessImpliesCacheEntry ==
  Succeeded =>
    LET first == Val(run.info).links[1]
        id == extractLinkId(first)
    IN /\ ~IsNull(id)
       /\ ~IsNull(HeldNow(Val(id)))
       /\ Val(HeldNow(Val(id))).manuallyAdded
       /\ Val(HeldNow(Val(id))).originalLink = first
       /\ Val(HeldNow(Val(id))).unrestrictedUrl = run.unrestrictedUrl

\* C4: deleteTorrent is issued only after the unrestrict call has returned a
\* URL and, where the run writes the cache, after that write; a successful
\* run issued addTorrent, poll, [selectFiles, poll], unrestrict, [cache
\* write], deleteTorrent in this order, deleteTorrent once and last.
C4_DeleteLastAfterUnrestrict ==
  LET ops == SelectSeq(Ops(calls), LAMBDA o : o # "settle")
      head == IF run.kind = "resolve" THEN <<"addTorrent", "getTorrentInfo">> ELSE <<>>
      sel == IF run.viaSelect THEN <<"selectFiles", "getTorrentInfo">> ELSE <<>>
      write == IF Count(calls, "addStrmEntry") > 0 THEN <<"addStrmEntry">> ELSE <<>>
  IN /\ \A i \in 1..Len(calls) :
          calls[i][1] = "deleteTorrent" =>
            /\ run.unrestrictedUrl \in FreshUrls
            /\ \E j \in 1..(i - 1) : calls[j][1] = "unrestrictLink"
            /\ \A j \in 1..Len(calls) :
                 calls[j][1] \in {"addStrmEntry", "addStrmEntryFailed"} => j < i
            /\ i = Len(calls)
     /\ Succeeded =>
          ops = head \o sel \o <<"unrestrictLink">> \o write \o <<"deleteTorrent">>

C4_Witness ==
  /\ Succeeded
  /\ run.kind = "resolve"
  /\ run.viaSelect
  /\ Count(calls, "addStrmEntry") = 1

\* C5: when the poll says waiting_files_selection and exactly one file is
\* larger than 2 MiB, resolve does not answer PendingSelection: the last
\* upstream call is selectFiles with that file's id.
C5_AutoSelectOneLarge ==
  (PolledWaiting /\ Cardinality(LargeIdx(Val(run.info).files)) = 1) =>
    LET files == Val(run.info).files
        f == files[CHOOSE i \in LargeIdx(files) : TRUE]
    IN /\ result.kind # "pending"
       /\ Len(calls) > 0
       /\ calls[Len(calls)] = Call("selectFiles", run.torrentId, toString(f.id))

C5_Witness ==
  /\ PolledWaiting
  /\ pc = "selectFiles"
  /\ Cardinality(LargeIdx(Val(run.info).files)) = 1
  /\ Len(Val(run.info).files) > 2
  /\ Val(run.info).files[1].bytes <= TWO_MB

\* What C6 promises of a run whose poll said waiting_files_selection.
AnsweredPending ==
  /\ pc = "done"
  /\ result.kind = "pending"
  /\ result.files = Val(run.info).files
  /\ result.torrentId = run.torrentId
  /\ Count(calls, "selectFiles") = 0
  /\ Count(calls, "unrestrictLink") = 0
  /\ Count(calls, "deleteTorrent") = 0

PolledNoLinks ==
  /\ ~IsNull(run.info)
  /\ Val(run.info).status # "waiting_files_selection"
  /\ Len(Val(run.info).links) = 0

\* C7: a polled session that is not waiting for a selection and has no links
\* makes the run fail, with no unrestrict call, no LinkCache write and no
\* deleteTorrent call in that run.
C7_NoLinksFails ==
  PolledNoLinks =>
    /\ pc = "done"
    /\ result.kind = "error"
    /\ Count(calls, "unrestrictLink") = 0
    /\ Count(calls, "addStrmEntry") = 0
    /\ Count(calls, "addStrmEntryFailed") = 0
    /\ Count(calls, "deleteTorrent") = 0

C7_Witness ==
  /\ PolledNoLinks
  /\ run.kind = "completeSelection"
  /\ result.kind = "error"

\* Each upstream call at most once per run, each poll right after a settle
\* delay of its own.
NoRepeat(c) ==
  /\ \A op \in {"addTorrent", "selectFiles", "unrestrictLink", "deleteTorrent"} :
       Count(c, op) <= 1
  /\ \A i \in 1..Len(c) :
       c[i][1] = "getTorrentInfo" => i > 1 /\ c[i - 1][1] = "settle"

\* C8: no retries: addTorrent, selectFiles, unrestrict and deleteTorrent at
\* most once per run, the poll at most once per settle delay, and the step on
\* which the run fails, like every step after it, issues no upstream call.
C8_NoRetries ==
  [][/\ NoRepeat(calls')
     /\ result'.kind = "error" => Upstream(calls') = Upstream(calls)]_vars

C8_Witness ==
  /\ pc = "done"
  /\ result.kind = "error"
  /\ Len(calls) > 0
  /\ calls[Len(calls)][1] = "deleteTorrent"
  /\ Count(calls, "selectFiles") = 1

---------------------------------------------------------------------------
(* Further properties of the LinkCache (SpecCache) *)

\* C11: updateUrl on an identifier with no entry creates no entry and leaves
\* every entry and the persisted store as they were; on an existing entry it
\* sets unrestrictedUrl to the given URL and generatedAt to the time of the
\* call and leaves every other field of that entry as it was.
C11_UpdateUrlFrame ==
  [][\A id \in LinkIds, url \in FreshUrls :
       (obs'.op = "updateUrl" /\ obs'.id = id /\ obs'.url = url) =>
         IF IsNull(HeldNow(id))
         THEN /\ \A k \in LinkIds : HeldNow(k)' = HeldNow(k)
              /\ cacheFile' = cacheFile
              /\ kv' = kv
         ELSE HeldNow(id)' =
                Some([Val(HeldNow(id)) EXCEPT !.unrestrictedUrl = url,
                                              !.generatedAt = toISOString(now)])
    ]_vars

\* updateUrl has just run on an identifier without an entry, next to the
\* entry of another identifier.
C11_Witness ==
  /\ obs.op = "updateUrl"
  /\ IsNull(HeldNow(obs.id))
  /\ ~IsNull(HeldNow("L2"))
  /\ now > 0

\* updateUrl has just refreshed an existing manually added entry.
C11_UpdatedReached ==
  /\ obs.op = "updateUrl"
  /\ ~IsNull(HeldNow(obs.id))
  /\ Val(HeldNow(obs.id)).unrestrictedUrl = obs.url
  /\ now > 0

---------------------------------------------------------------------------
(* The virtual directories: src/src/strmCache.js 215-293 and 689-797        *)
(* (/downloads/ and /dmmcast/).  A feed entry and the file made from it     *)
(* carry src, the position of the entry in the upstream answer; src is      *)
(* read by no operation, it lets properties name the entry a file came      *)
(* from.                                                                    *)

\* Array.prototype.sort with a comparator key(b) - key(a): descending by
\* key, stable.  keys[i] is the key of s[i].
\* Value({e(x) : x \in {a}}) is e(a), with a evaluated once; Tuple(f) is the
\* sequence f with all its elements evaluated.
Value(S) == CHOOSE x \in S : TRUE
Tuple(f) == f \o <<>>

Ranks(keys) ==
  [i \in 1..Len(keys) |->
     Cardinality({j \in 1..Len(keys) :
                    keys[j] > keys[i] \/ (keys[j] = keys[i] /\ j < i)}) + 1]
PlaceByRank(s, ranks) ==
  [r \in 1..Len(s) |-> s[CHOOSE i \in 1..Len(s) : ranks[i] = r]]
SortDescBy(s, keys) ==
  Value({Tuple(PlaceByRank(s, ranks)) : ranks \in {Tuple(Ranks(k)) : k \in {Tuple(keys)}}})

\* The elements of s at the positions in I, in order.
Pick(s, I) ==
  LET f[k \in 0..Len(s)] ==
        IF k = 0 THEN <<>>
        ELSE IF k \in I THEN Append(f[k - 1], s[k]) ELSE f[k - 1]
  IN f[Len(s)]

Take(s, n) == SubSeq(s, 1, IF Len(s) < n THEN Len(s) ELSE n)

\* rdClient.getDownloadsList(config, 20) is asked for at most 20 entries;
\* the listing stops at 10 unique ids.
DOWNLOADS_FETCH_LIMIT == 20
WEBDAV_LIMIT == 10

\* (downloads || []).sort((a, b) => new Date(b.generated) - new Date(a.generated))
sortedDownloads(downloads) ==
  SortDescBy(downloads, [i \in 1..Len(downloads) |-> getTime(downloads[i].generated)])

\* The first occurrence of each id.
FirstOfEachId(sorted) ==
  Pick(sorted, {i \in 1..Len(sorted) :
                  \A j \in 1..(i - 1) : sorted[j].id # sorted[i].id})

\* Variant: no limit on the number of unique ids.
uniqueDownloads_noLimit(downloads) ==
  Value({FirstOfEachId(sorted) : sorted \in {sortedDownloads(downloads)}})

\* Variant: the feed is not sorted before the first occurrence of an id is
\* kept.
uniqueDownloads_unsorted(downloads) == Take(FirstOfEachId(downloads), WEBDAV_LIMIT)

\* The seenIds loop: the first occurrence of each id in sorted order, until
\* 10 are collected.
uniqueDownloads(downloads) ==
  Value({Take(FirstOfEachId(sorted), WEBDAV_LIMIT) :
           sorted \in {sortedDownloads(downloads)}})

\* `${download.filename}.strm`; a name is the sequence of its parts.
StrmName(filename) == filename \o <<".strm">>

\* fileObj of getRealDebridWebDAVFiles.
DownloadFile(download) ==
  [name |-> StrmName(download.filename),
   content |-> download.download,
   modified |-> download.generated,
   modifiedTimestamp |-> getTime(download.generated),
   originalFilename |-> download.filename,
   filesize |-> download.filesize,
   src |-> download.src]

\* Variant: every file is kept, whatever its name.
filesMap_keepAll(fileObjs) == fileObjs

\* The filesMap loop: a Map keyed by name, in insertion order; a later file
\* replaces the one of the same name only if it is modified later.
filesMapSet(m, o, at) ==
  IF at = {} THEN Append(m, o)
  ELSE IF \E p \in at : o.modifiedTimestamp > m[p].modifiedTimestamp
       THEN [p \in 1..Len(m) |-> IF p \in at THEN o ELSE m[p]]
       ELSE m
filesMapStep(m, o) == filesMapSet(m, o, {p \in 1..Len(m) : m[p].name = o.name})
filesMap(fileObjs) ==
  LET f[k \in 0..Len(fileObjs)] ==
        IF k = 0 THEN <<>> ELSE filesMapStep(f[k - 1], fileObjs[k])
  IN f[Len(fileObjs)]

\* const { modifiedTimestamp, ...cleanFile } = file
cleanFile(file) ==
  [name |-> file.name, content |-> file.content, modified |-> file.modified,
   originalFilename |-> file.originalFilename, filesize |-> file.filesize,
   src |-> file.src]

\* getRealDebridWebDAVFiles: [] when the upstream call throws.
DownloadFiles(unique) == Tuple([i \in 1..Len(unique) |-> DownloadFile(unique[i])])
cleanFiles(files) == Tuple([i \in 1..Len(files) |-> cleanFile(files[i])])
getRealDebridWebDAVFiles(downloads, upOk) ==
  IF ~upOk THEN <<>>
  ELSE Value({cleanFiles(m) :
                m \in {filesMap(fileObjs) :
                         fileObjs \in {DownloadFiles(u) :
                                         u \in {uniqueDownloads(downloads)}}}})

\* getRealDebridDownloads (home page): the unique downloads, formatted.
HomeFormat(u) ==
  Tuple([i \in 1..Len(u) |->
           [filename |-> u[i].filename, filesize |-> u[i].filesize,
            downloadUrl |-> u[i].download, src |-> u[i].src]])
getRealDebridDownloads(downloads, upOk) ==
  IF ~upOk THEN <<>>
  ELSE Value({HomeFormat(u) : u \in {uniqueDownloads(downloads)}})

\* getCastedLinks: the links updated in the last 7 days, latest first.
\* `${filename}{hash-${link.hash}}{imdb-${link.imdbId}}.strm`
strmFilename(filename, hash, imdbId) ==
  filename \o <<"{hash-">> \o hash \o <<"}", "{imdb-">> \o imdbId \o <<"}", ".strm">>

\* link.filename, or the last part of the URL path when it is missing or
\* 'Unknown'.
castedFilename(link) ==
  IF IsNull(link.filename) \/ link.filename = Some(<<"Unknown">>)
  THEN IF link.url.last = <<>> THEN <<"Unknown">> ELSE link.url.last
  ELSE Val(link.filename)

\* (Math.round(link.size / 1024 * 10) / 10).toFixed(1), in tenths of a GB.
sizeGB(size) == IF size = 0 THEN 0 ELSE (size * 10 * 2 + 1024) \div (2 * 1024)

\* updatedTime >= sevenDaysAgo, for a link that has an updatedAt.
castedRecent(link, t) ==
  /\ ~IsNull(link.updatedAt)
  /\ getTime(Val(link.updatedAt)) >= t - SEVEN_DAYS_MS

castedFormat(link) ==
  [url |-> link.url,
   filename |-> castedFilename(link),
   strmFilename |-> strmFilename(castedFilename(link), link.hash, link.imdbId),
   sizeGB |-> sizeGB(link.size),
   updatedAt |-> Val(link.updatedAt),
   imdbId |-> link.imdbId,
   hash |-> link.hash,
   src |-> link.src]

filteredLinks(data, t) == SelectSeq(data, LAMBDA link : castedRecent(link, t))
sortedLinks(links) ==
  SortDescBy(links, [i \in 1..Len(links) |-> getTime(Val(links[i].updatedAt))])
castedFormatAll(links) == Tuple([i \in 1..Len(links) |-> castedFormat(links[i])])

\* Variant: the filtered links are returned in feed order.
getCastedLinks_unsorted(data, t, upOk) ==
  IF ~upOk THEN <<>>
  ELSE Value({castedFormatAll(links) : links \in {filteredLinks(data, t)}})

\* [] when the fetch fails or the answer is no array.
getCastedLinks(data, t, upOk) ==
  IF ~upOk THEN <<>>
  ELSE Value({castedFormatAll(sorted) :
                sorted \in {sortedLinks(links) : links \in {filteredLinks(data, t)}}})

\* fileObj of getDMMCastWebDAVFiles.
CastedFile(link) ==
  [name |-> link.strmFilename,
   content |-> link.url,
   modified |-> link.updatedAt,
   modifiedTimestamp |-> getTime(link.updatedAt),
   originalFilename |-> link.filename,
   filesize |-> (link.sizeGB * 1024) \div 10,   \* sizeGB * 1024^3 bytes, in MiB
   src |-> link.src]

CastedFiles(castedLinks) ==
  Tuple([i \in 1..Len(castedLinks) |-> CastedFile(castedLinks[i])])
getDMMCastWebDAVFiles(data, t, upOk) ==
  Value({cleanFiles(m) :
           m \in {filesMap(fileObjs) :
                    fileObjs \in {CastedFiles(castedLinks) :
                                    castedLinks \in {getCastedLinks(data, t, upOk)}}}})

\* DELETE /dmmcast/*: filename.match(/\{hash-([^}]+)\}\{imdb-([^}]+)\}\.strm$/)
\* on a name given as the sequence of its parts.  The position of the first
\* "}" at or after from, or 0.
NextClose(name, from) ==
  LET at == {e \in from..Len(name) : name[e] = "}"}
  IN IF at = {} THEN 0 ELSE CHOOSE e \in at : \A e2 \in at : e <= e2

\* The pattern matches from position s to the end of the name.
MatchesAt(name, s) ==
  /\ name[s] = "{hash-"
  /\ LET e1 == NextClose(name, s + 1)
     IN /\ e1 > s + 1
        /\ e1 + 1 <= Len(name)
        /\ name[e1 + 1] = "{imdb-"
        /\ LET e2 == NextClose(name, e1 + 2)
           IN /\ e2 > e1 + 2
              /\ e2 + 1 = Len(name)
              /\ name[e2 + 1] = ".strm"

\* The groups of the match that starts at s.
GroupsAt(name, s) ==
  LET e1 == NextClose(name, s + 1)
      e2 == NextClose(name, e1 + 2)
  IN [hash |-> SubSeq(name, s + 1, e1 - 1), imdbId |-> SubSeq(name, e1 + 2, e2 - 1)]

\* Variant: the pattern is not anchored at the end of the name.
match_unanchored(name) ==
  LET starts == {s \in 1..Len(name) :
                   \E n \in s..Len(name) : MatchesAt(SubSeq(name, 1, n), s)}
  IN IF starts = {} THEN Null
     ELSE LET s == CHOOSE s1 \in starts : \A s2 \in starts : s1 <= s2
              n == CHOOSE n1 \in s..Len(name) : MatchesAt(SubSeq(name, 1, n1), s)
          IN Some(GroupsAt(SubSeq(name, 1, n), s))

\* String.prototype.match: the leftmost match, or null.
match(name) ==
  LET starts == {s \in 1..Len(name) : MatchesAt(name, s)}
  IN IF starts = {} THEN Null
     ELSE Some(GroupsAt(name, CHOOSE s \in starts : \A s2 \in starts : s <= s2))

\* What the upstream delete call does: it throws, or it answers with a
\* status and a body.
DeleteOutcomes ==
  { [throws |-> FALSE, status |-> 200, body |-> "deleted"],
    [throws |-> FALSE, status |-> 404, body |-> "no such link"],
    [throws |-> FALSE, status |-> 500, body |-> "upstream error"],
    [throws |-> TRUE, status |-> 0, body |-> "fetch failed"] }

\* response.ok
ResponseOk(outcome) == outcome.status \in 200..299

\* Variant: every upstream failure is answered with 502.
DeleteHandler_badGateway(filename, outcome) ==
  IF IsNull(match(filename))
  THEN [status |-> 400, body |-> Some(<<"Invalid filename format">>), upstream |-> <<>>]
  ELSE [status |-> IF ~outcome.throws /\ ResponseOk(outcome) THEN 204 ELSE 502,
        body |-> IF ~outcome.throws /\ ResponseOk(outcome) THEN Null
                 ELSE Some(<<"Delete failed: ", outcome.body>>),
        upstream |-> << [op |-> "deletelink", imdbId |-> Val(match(filename)).imdbId,
                         hash |-> Val(match(filename)).hash] >>]

\* The DELETE handler: its response and the requests it sent upstream.
DeleteHandler(filename, outcome) ==
  LET m == match(filename)
  IN IF IsNull(m)
     THEN [status |-> 400, body |-> Some(<<"Invalid filename format">>), upstream |-> <<>>]
     ELSE [status |-> IF outcome.throws THEN 500
                      ELSE IF ~ResponseOk(outcome) THEN outcome.status
                      ELSE 204,
           body |-> IF outcome.throws \/ ~ResponseOk(outcome)
                    THEN Some(<<"Delete failed: ", outcome.body>>)
                    ELSE Null,
           upstream |-> << [op |-> "deletelink", imdbId |-> Val(m).imdbId,
                            hash |-> Val(m).hash] >>]

---------------------------------------------------------------------------
(* src/src/worker-combined.js - getWebDAVFiles (the /webdav/ directory) *)

\* rdClient.getDownloadsList(config, 3)
RECENT_LIMIT == 3

\* The passive puts: storage.addStrmEntry(..., false) for each download whose
\* link has a link id, in sorted order.
recentPuts(S, sorted, t) ==
  LET f[k \in 0..Len(sorted)] ==
        IF k = 0 THEN S
        ELSE IF IsNull(extractLinkId(sorted[k].link)) THEN f[k - 1]
             ELSE storage_addStrmEntry(f[k - 1], Val(extractLinkId(sorted[k].link)),
                                       sorted[k].link, sorted[k].download,
                                       sorted[k].filename, FALSE, 0, t, TRUE)
  IN f[Len(sorted)]

recent3LinkIds(sorted) ==
  {Val(extractLinkId(sorted[k].link)) :
     k \in {k1 \in 1..Len(sorted) : ~IsNull(extractLinkId(sorted[k1].link))}}

\* The keys of allEntries in listing order; entries of equal modified time
\* stay in this order.
KeyOrder == <<"L1", "L2">>
EntryKeys(all) == SelectSeq(KeyOrder, LAMBDA k : k \in DOMAIN all)

\* Variant: every stored entry is shown.
showInListing_stored(entry, recent, t) ==
  ~IsNull(extractLinkId(entry.originalLink))

\* showInListing
showInListing(entry, recent, t) ==
  /\ ~IsNull(extractLinkId(entry.originalLink))
  /\ \/ Val(extractLinkId(entry.originalLink)) \in recent
     \/ entry.manuallyAdded /\ t - getTime(entry.generatedAt) < SEVEN_DAYS_MS

\* files.push({ name, content, size, modified, contentType })
WebDAVFile(entry, key) ==
  [name |-> StrmName(<<entry.filename>>),
   content |-> <<"strm", Val(extractLinkId(entry.originalLink))>>,
   modified |-> entry.generatedAt,
   src |-> key]

shownFiles(all, recent, t) ==
  Value({Tuple([i \in 1..Len(keys) |-> WebDAVFile(all[keys[i]], keys[i])]) :
           keys \in {SelectSeq(EntryKeys(all),
                               LAMBDA k : showInListing(all[k], recent, t))}})

\* files.sort((a, b) => new Date(b.modified) - new Date(a.modified))
sortedFiles(files) ==
  SortDescBy(files, [i \in 1..Len(files) |-> getTime(files[i].modified)])

\* getWebDAVFiles: the store after the passive puts and the files returned;
\* [] when the upstream call throws.
getWebDAVFilesListed(S, recent, t) ==
  Value({[S |-> g.S, files |-> sortedFiles(shownFiles(g.ret, recent, t))] :
           g \in {storage_getAllStrmEntries(S, t)}})
getWebDAVFiles(S, downloads, t, upOk) ==
  IF ~upOk THEN [S |-> S, files |-> <<>>]
  ELSE Value({getWebDAVFilesListed(recentPuts(S, sorted, t), recent3LinkIds(sorted), t) :
                sorted \in {sortedDownloads(downloads)}})

---------------------------------------------------------------------------
(* What the upstream feeds can answer, and the requests on the directories *)

\* The time of the requests on the virtual directories.
NowDav == 10 * 24 * 60 * 60 * 1000

MkDownload(src, id, ms, filename) ==
  [id |-> id, filename |-> filename, generated |-> toISOString(ms),
   download |-> <<"dl", src>>, filesize |-> 0, src |-> src]

\* n downloads with ids 1..n, latest first or latest last ...
BaseDownloads(n, order) ==
  [i \in 1..n |->
     MkDownload(i, i,
                NowDav - 1000 * (IF order = "desc" THEN i ELSE n + 1 - i),
                <<"n", i>>)]

\* ... followed by up to two more entries for the ids 1 and 2: older than
\* all, newer than all or as old as another entry, under the name of their
\* id or under the name of id 3.
ExtraKinds == [id : {1, 2}, time : {"old", "new", "tie"}, name : {"own", "other"}]
ExtraLists == {<<>>} \cup {<<a>> : a \in ExtraKinds}
                \cup {<<a, b>> : a \in ExtraKinds, b \in ExtraKinds}
ExtraDownload(src, k) ==
  MkDownload(src, k.id,
             CASE k.time = "old" -> NowDav - 1000 * 1000
               [] k.time = "new" -> NowDav
               [] OTHER -> NowDav - 1000 * 2,
             IF k.name = "own" THEN <<"n", k.id>> ELSE <<"n", 3>>)
AllDownloadFeeds ==
  { [kind |-> "downloads",
     data |-> BaseDownloads(n, order)
              \o [k \in 1..Len(x) |-> ExtraDownload(n + k, x[k])]] :
      n \in 0..MaxFeedIds, order \in {"desc", "asc"}, x \in ExtraLists }
DownloadFeeds == {f \in AllDownloadFeeds : Len(f.data) <= DOWNLOADS_FETCH_LIMIT}

\* Casted links: without updatedAt, just outside the 7 days, exactly 7 days
\* old, or recent; with a plain title, without filename, or with a title
\* that itself contains "{hash-".
CastedTimes ==
  {Null, Some(toISOString(NowDav - SEVEN_DAYS_MS - 1)),
   Some(toISOString(NowDav - SEVEN_DAYS_MS)), Some(toISOString(NowDav - 1000))}
CastedIdents ==
  { [filename |-> Some(<<"Title">>), hash |-> <<"abc123">>, imdbId |-> <<"tt000111">>],
    [filename |-> Null, hash |-> <<"def456">>, imdbId |-> <<"tt000111">>],
    [filename |-> Some(<<"Title", "{hash-", "y">>), hash |-> <<"abc123">>,
     imdbId |-> <<"tt000222">>] }
MkCasted(src, ident, updatedAt) ==
  [url |-> [href |-> <<"cast", src>>, last |-> <<"file.mkv">>],
   filename |-> ident.filename, hash |-> ident.hash, imdbId |-> ident.imdbId,
   size |-> 1536, updatedAt |-> updatedAt, src |-> src]
CastedFeeds ==
  { [kind |-> "casted",
     data |-> [i \in 1..n |-> MkCasted(i, ids[i], ts[i])]] :
      n \in 0..MaxCasted, ids \in [1..MaxCasted -> CastedIdents],
      ts \in [1..MaxCasted -> CastedTimes] }

\* The three most recent downloads as worker-combined.js reads them: links
\* with the link id L1 or L2 or without a link id, under two filenames,
\* generated at two times.
RecentKinds ==
  [link : {RdLink("L1"), RdLink("L2"), [hostname |-> "example.com", pathParts |-> <<"", "d", "L1">>]},
   filename : {"a.mkv", "b.mkv"},
   ms : {NowDav - 1000, NowDav - 2000}]
MkRecent(src, k) ==
  [link |-> k.link, download |-> <<"dl", src>>, filename |-> k.filename,
   generated |-> toISOString(k.ms), src |-> src]
AllRecentFeeds ==
  { [kind |-> "recent", data |-> [i \in 1..n |-> MkRecent(i, ks[i])]] :
      n \in 0..MaxRecent, ks \in [1..MaxRecent -> RecentKinds] }
RecentFeeds == {f \in AllRecentFeeds : Len(f.data) <= RECENT_LIMIT}

\* Names a client may ask for that no listing offers.
TitleParts == {"Title", "{hash-", "}", "{imdb-", ".strm"}
Titles == {<<>>} \cup {<<a>> : a \in TitleParts}
            \cup {<<a, b>> : a \in TitleParts, b \in TitleParts}
Tails ==
  { <<"{hash-", "abc123", "}", "{imdb-", "tt000111", "}", ".strm">>,
    <<"{hash-", "ab", "cd", "}", "{imdb-", "tt", "1", "}", ".strm">>,
    <<".strm">>,
    <<>>,
    <<"{hash-", "}", "{imdb-", "tt000111", "}", ".strm">>,
    <<"{hash-", "abc123", "}", "{imdb-", "}", ".strm">>,
    <<"{hash-", "abc123", "}", "{imdb-", "tt000111", "}">>,
    <<"{hash-", "abc123", "}", "{imdb-", "tt000111", "}", ".strm", "x">>,
    <<"{imdb-", "tt000111", "}", "{hash-", "abc123", "}", ".strm">>,
    <<"{hash-", "abc123", "}", "Title", "{imdb-", "tt000111", "}", ".strm">> }
DeleteNames == {t \o tail : t \in Titles, tail \in Tails}

\* The names a client asks for: those of the listing, one that is not
\* listed and one that is no .strm file.
NamesOf(files) == {files[i].name : i \in 1..Len(files)}
OtherNames == {<<"nope", ".strm">>, <<"n", ".mkv">>}

\* PROPFIND /webdav/ (Depth 1) of worker-combined.js: the files listed, and
\* the cache after the passive puts.
ListWebdav(upOk) ==
  /\ dav.op = "none"
  /\ feed.kind = "recent"
  /\ \E r \in {getWebDAVFiles(Store, feed.data, now, upOk)} :
       /\ SetStore(r.S)
       /\ dav' = [NoDav EXCEPT !.op = "webdav", !.upOk = upOk, !.status = 207,
                               !.files = r.files]
  /\ UNCHANGED <<feed, backing, now, ticks, obs>>
  /\ UNCHANGED pipeVars
  /\ UNCHANGED writerVars
  /\ UNCHANGED twin
  /\ UNCHANGED urlAt
  /\ UNCHANGED http

\* PROPFIND /downloads/ and PROPFIND /dmmcast/ (Depth 1): the files listed.
ListDirectory(upOk) ==
  /\ dav.op = "none"
  /\ feed.kind \in {"downloads", "casted"}
  /\ dav' = [NoDav EXCEPT
               !.op = "list", !.upOk = upOk, !.status = 207,
               !.files = IF feed.kind = "downloads"
                         THEN getRealDebridWebDAVFiles(feed.data, upOk)
                         ELSE getDMMCastWebDAVFiles(feed.data, now, upOk)]
  /\ UNCHANGED feed
  /\ UNCHANGED cacheVars
  /\ UNCHANGED pipeVars
  /\ UNCHANGED writerVars
  /\ UNCHANGED twin
  /\ UNCHANGED urlAt
  /\ UNCHANGED http

\* GET / (home page): the recent downloads shown.
HomePage(upOk) ==
  /\ dav.op = "none"
  /\ feed.kind = "downloads"
  /\ dav' = [NoDav EXCEPT !.op = "home", !.upOk = upOk, !.status = 200,
                          !.files = getRealDebridDownloads(feed.data, upOk)]
  /\ UNCHANGED feed
  /\ UNCHANGED cacheVars
  /\ UNCHANGED pipeVars
  /\ UNCHANGED writerVars
  /\ UNCHANGED twin
  /\ UNCHANGED urlAt
  /\ UNCHANGED http

\* GET /downloads/:filename and GET /dmmcast/:filename for a name that is
\* no static asset.
GetFileFound(hits, filename) ==
  IF Len(hits) = 0 THEN [status |-> 404, body |-> Null]
  ELSE IF filename[Len(filename)] = ".strm"
       THEN [status |-> 200, body |-> Some(hits[1].content)]
       ELSE [status |-> 400, body |-> Null]
GetFileHandler(files, filename) ==
  Value({GetFileFound(hits, filename) :
           hits \in {SelectSeq(fs, LAMBDA f : f.name = filename) : fs \in {files}}})

GetFile(filename, upOk) ==
  /\ dav.op = "none"
  /\ feed.kind \in {"downloads", "casted"}
  /\ \E r \in {GetFileHandler(IF feed.kind = "downloads"
                               THEN getRealDebridWebDAVFiles(feed.data, upOk)
                               ELSE getDMMCastWebDAVFiles(feed.data, now, upOk),
                               filename)} :
       dav' = [NoDav EXCEPT !.op = "get", !.upOk = upOk, !.name = filename,
                            !.status = r.status, !.body = r.body]
  /\ UNCHANGED feed
  /\ UNCHANGED cacheVars
  /\ UNCHANGED pipeVars
  /\ UNCHANGED writerVars
  /\ UNCHANGED twin
  /\ UNCHANGED urlAt
  /\ UNCHANGED http

\* DELETE /dmmcast/<filename>
Delete(filename, outcome) ==
  /\ dav.op = "none"
  /\ feed.kind = "casted"
  /\ LET r == DeleteHandler(filename, outcome)
     IN dav' = [NoDav EXCEPT !.op = "delete", !.name = filename,
                             !.upOk = (~outcome.throws /\ ResponseOk(outcome)),
                             !.answer = Some(outcome),
                             !.status = r.status, !.body = r.body,
                             !.upstream = r.upstream]
  /\ UNCHANGED feed
  /\ UNCHANGED cacheVars
  /\ UNCHANGED pipeVars
  /\ UNCHANGED writerVars
  /\ UNCHANGED twin
  /\ UNCHANGED urlAt
  /\ UNCHANGED http

\* The response is sent; the handlers keep nothing from one request to the
\* next.
Respond ==
  /\ dav.op # "none"
  /\ dav' = NoDav
  /\ UNCHANGED feed
  /\ UNCHANGED cacheVars
  /\ UNCHANGED pipeVars
  /\ UNCHANGED writerVars
  /\ UNCHANGED twin
  /\ UNCHANGED urlAt
  /\ UNCHANGED http

DavInit ==
  /\ feed \in DownloadFeeds \cup CastedFeeds \cup RecentFeeds
  /\ backing \in (IF feed.kind = "recent" THEN {"node", "kv"} ELSE {"none"})
  /\ StoreInit
  /\ now = NowDav
  /\ ticks = 0
  /\ obs = NoObs
  /\ PipeIdle
  /\ dav = NoDav
  /\ WritersIdle
  /\ twin = NoTwin
  /\ urlAt = NoUrlAt
  /\ http = NoHttp

\* The names asked for: in /downloads/ two names that several entries may
\* share, in /dmmcast/ the names of the current listing.
RequestNames ==
  CASE feed.kind = "downloads" -> {StrmName(<<"n", 1>>), StrmName(<<"n", 3>>)}
    [] feed.kind = "casted" -> NamesOf(getDMMCastWebDAVFiles(feed.data, now, TRUE))
    [] OTHER -> {}

\* Between two requests the account's recent downloads change: the next
\* getDownloadsList(config, 3) returns another list, here an empty one or
\* one with a single download.
FeedMoves ==
  /\ dav.op = "none"
  /\ feed.kind = "recent"
  /\ ticks < MaxTicks
  /\ ticks' = ticks + 1
  /\ feed' \in {f \in RecentFeeds : Len(f.data) <= 1} \ {feed}
  /\ UNCHANGED <<backing, nodeStrmCache, cacheFile, kv, now, obs>>
  /\ UNCHANGED dav
  /\ UNCHANGED pipeVars
  /\ UNCHANGED writerVars
  /\ UNCHANGED twin
  /\ UNCHANGED urlAt
  /\ UNCHANGED http

DavNext ==
  \/ \E upOk \in BOOLEAN : ListWebdav(upOk)
  \/ \E upOk \in BOOLEAN : ListDirectory(upOk)
  \/ \E upOk \in BOOLEAN : HomePage(upOk)
  \/ \E n \in RequestNames \cup OtherNames, upOk \in BOOLEAN : GetFile(n, upOk)
  \/ \E n \in RequestNames \cup (IF feed.data = <<>> THEN DeleteNames ELSE {}),
        o \in DeleteOutcomes :
       Delete(n, o)
  \/ Respond
  \/ FeedMoves

SpecDav == DavInit /\ [][DavNext]_vars


---------------------------------------------------------------------------
(* src/src/storage.js - two writes in progress at once.  Each await of     *)
(* addStrmEntry / updateStrmUrl ends a step; the steps of the two writes   *)
(* interleave in any order.  Objects are held by reference: heap.objs[r]   *)
(* maps the keys of object r to references into heap.ents, the entry       *)
(* objects; heap.mem is the object nodeStrmCache names, 0 for null.        *)

Writers == {1, 2}

\* The value of the object r: its keys and the entries they name.
Deref(h, r) == [k \in DOMAIN h.objs[r] |-> h.ents[h.objs[r][k]]]

\* nodeStrmCache as the sequential operations read it.
MemOf(h) ==
  IF h.mem = 0 THEN [loaded |-> FALSE, map |-> EmptyMap]
  ELSE [loaded |-> TRUE, map |-> Deref(h, h.mem)]

\* JSON.parse(data): a new object with a new entry object for each key.
IndexOf(keys, k) == CHOOSE i \in 1..Len(keys) : keys[i] = k
ParsedEnts(data, keys) == [i \in 1..Len(keys) |-> data[keys[i]]]
ParsedObj(data, keys, base) == [k \in DOMAIN data |-> base + IndexOf(keys, k)]
JSONparse(h, data) ==
  [h EXCEPT !.ents = @ \o ParsedEnts(data, EntryKeys(data)),
            !.objs = Append(@, ParsedObj(data, EntryKeys(data), Len(h.ents)))]

\* JSON.stringify(cleaned): the value of the object at that moment.
JSONstringify(h, r) == Deref(h, r)

\* The body of addStrmEntry on the object cache, up to the call of
\* _cleanupAndSaveStrmCache: the existing manual entry is touched in place,
\* or a new entry object is stored under the key.
nodeAddInPlace(h, cache, w, t) ==
  IF /\ ~w.manuallyAdded
     /\ w.id \in DOMAIN h.objs[cache]
     /\ h.ents[h.objs[cache][w.id]].manuallyAdded
  THEN [h EXCEPT !.ents[h.objs[cache][w.id]].generatedAt = toISOString(t)]
  ELSE [h EXCEPT !.ents = Append(@, [originalLink |-> w.p.originalLink,
                                     unrestrictedUrl |-> w.p.unrestrictedUrl,
                                     generatedAt |-> toISOString(t),
                                     filename |-> w.p.filename,
                                     manuallyAdded |-> w.manuallyAdded,
                                     filesize |-> w.p.filesize]),
                 !.objs[cache] = MapPut(@, w.id, Len(h.ents) + 1)]

\* The body of updateStrmUrl on an entry that exists: the entry object is
\* changed in place.
nodeUpdateInPlace(h, cache, w, t) ==
  [h EXCEPT !.ents[h.objs[cache][w.id]].unrestrictedUrl = w.url,
            !.ents[h.objs[cache][w.id]].generatedAt = toISOString(t)]

\* _cleanupAndSaveStrmCache up to its first await: cleaned is a new object
\* that shares the entry objects it keeps, and nodeStrmCache names it.
nodeCleaned(h, cache, t) ==
  [k \in {k1 \in DOMAIN h.objs[cache] :
            t - getTime(h.ents[h.objs[cache][k1]].generatedAt) < SEVEN_DAYS_MS}
     |-> h.objs[cache][k]]
nodeCleanup(h, cache, t) ==
  [h EXCEPT !.objs = Append(@, nodeCleaned(h, cache, t)),
            !.mem = Len(h.objs) + 1]

\* The put of workerStorage.addStrmEntry, given what its get returned
\* (Null for a manual put, which does not get).
workerStorage_addStrmEntry_put(S, existingEntry, w, t) ==
  IF ~w.manuallyAdded /\ ~IsNull(existingEntry) /\ Val(existingEntry).manuallyAdded
  THEN kvPut(S, w.id, [Val(existingEntry) EXCEPT !.generatedAt = toISOString(t)],
             sevenDaysInSeconds, t, TRUE)
  ELSE kvPut(S, w.id,
             [originalLink |-> w.p.originalLink,
              unrestrictedUrl |-> w.p.unrestrictedUrl,
              generatedAt |-> toISOString(t),
              filename |-> w.p.filename,
              manuallyAdded |-> w.manuallyAdded,
              filesize |-> w.p.filesize],
             sevenDaysInSeconds, t, TRUE)

\* A write: its arguments, its position and its locals.
Writer(op, id, p, manuallyAdded, url) ==
  [op |-> op, id |-> id, p |-> p, manuallyAdded |-> manuallyAdded, url |-> url,
   pc |-> "start", cache |-> 0, cleaned |-> 0, data |-> EmptyMap, got |-> Null]

SetHeap(h) ==
  /\ heap' = h
  /\ nodeStrmCache' = MemOf(h)

\* A getStrmEntry served before the writes start: the file is read and
\* nodeStrmCache names the parsed object.
NodeWarm ==
  /\ backing = "node"
  /\ \A w \in Writers : writers[w].pc = "start"
  /\ heap.mem = 0
  /\ cacheFile.exists
  /\ SetHeap([JSONparse(heap, cacheFile.data) EXCEPT !.mem = Len(heap.objs) + 1])
  /\ UNCHANGED <<backing, cacheFile, kv, now, ticks, obs, writers>>
  /\ UNCHANGED pipeVars
  /\ UNCHANGED davVars
  /\ UNCHANGED twin
  /\ UNCHANGED urlAt
  /\ UNCHANGED http

\* _loadNodeStrmCache is called: nodeStrmCache if it is set, else the file
\* is being read.
NodeLoad(w) ==
  /\ backing = "node"
  /\ writers[w].pc = "start"
  /\ writers' = [writers EXCEPT
                   ![w].pc = IF heap.mem # 0 THEN "loaded" ELSE "reading",
                   ![w].cache = heap.mem]
  /\ UNCHANGED <<heap, cacheVars>>
  /\ UNCHANGED pipeVars
  /\ UNCHANGED davVars
  /\ UNCHANGED twin
  /\ UNCHANGED urlAt
  /\ UNCHANGED http

\* fs.readFile settles: the parsed object becomes nodeStrmCache, or (ENOENT)
\* the caller gets an object of its own.
NodeReadFile(w) ==
  /\ backing = "node"
  /\ writers[w].pc = "reading"
  /\ IF cacheFile.exists
     THEN SetHeap([JSONparse(heap, cacheFile.data) EXCEPT !.mem = Len(heap.objs) + 1])
     ELSE SetHeap([heap EXCEPT !.objs = Append(@, EmptyMap)])
  /\ writers' = [writers EXCEPT ![w].pc = "loaded", ![w].cache = Len(heap.objs) + 1]
  /\ UNCHANGED <<backing, cacheFile, kv, now, ticks, obs>>
  /\ UNCHANGED pipeVars
  /\ UNCHANGED davVars
  /\ UNCHANGED twin
  /\ UNCHANGED urlAt
  /\ UNCHANGED http

\* The write resumes with its cache object: it changes the object and calls
\* _cleanupAndSaveStrmCache, which runs up to fs.mkdir; updateStrmUrl of an
\* absent entry returns.
NodeMutate(w) ==
  /\ backing = "node"
  /\ writers[w].pc = "loaded"
  /\ IF writers[w].op = "updateUrl" /\ writers[w].id \notin DOMAIN heap.objs[writers[w].cache]
     THEN /\ writers' = [writers EXCEPT ![w].pc = "done"]
          /\ UNCHANGED <<heap, nodeStrmCache>>
     ELSE /\ SetHeap(nodeCleanup(
                       IF writers[w].op = "put"
                       THEN nodeAddInPlace(heap, writers[w].cache, writers[w], now)
                       ELSE nodeUpdateInPlace(heap, writers[w].cache, writers[w], now),
                       writers[w].cache, now))
          /\ writers' = [writers EXCEPT ![w].pc = "mkdir",
                                        ![w].cleaned = Len(heap.objs) + 1]
  /\ UNCHANGED <<backing, cacheFile, kv, now, ticks, obs>>
  /\ UNCHANGED pipeVars
  /\ UNCHANGED davVars
  /\ UNCHANGED twin
  /\ UNCHANGED urlAt
  /\ UNCHANGED http

\* fs.mkdir settles: cleaned is serialized and fs.writeFile starts.
NodeMkdir(w) ==
  /\ backing = "node"
  /\ writers[w].pc = "mkdir"
  /\ writers' = [writers EXCEPT ![w].pc = "writing",
                                ![w].data = JSONstringify(heap, writers[w].cleaned)]
  /\ UNCHANGED <<heap, cacheVars>>
  /\ UNCHANGED pipeVars
  /\ UNCHANGED davVars
  /\ UNCHANGED twin
  /\ UNCHANGED urlAt
  /\ UNCHANGED http

\* fs.writeFile settles: the file holds the serialized object.
NodeWriteFile(w) ==
  /\ backing = "node"
  /\ writers[w].pc = "writing"
  /\ cacheFile' = [exists |-> TRUE, data |-> writers[w].data]
  /\ writers' = [writers EXCEPT ![w].pc = "done"]
  /\ UNCHANGED <<heap, backing, nodeStrmCache, kv, now, ticks, obs>>
  /\ UNCHANGED pipeVars
  /\ UNCHANGED davVars
  /\ UNCHANGED twin
  /\ UNCHANGED urlAt
  /\ UNCHANGED http

\* workerStorage.addStrmEntry with manuallyAdded = false: the get settles.
KvGet(w) ==
  /\ backing = "kv"
  /\ writers[w].pc = "start"
  /\ ~writers[w].manuallyAdded
  /\ writers' = [writers EXCEPT ![w].pc = "got",
                                ![w].got = kvGet(Store, writers[w].id, now)]
  /\ UNCHANGED <<heap, cacheVars>>
  /\ UNCHANGED pipeVars
  /\ UNCHANGED davVars
  /\ UNCHANGED twin
  /\ UNCHANGED urlAt
  /\ UNCHANGED http

\* The put settles: after the get of a passive put, at once for a manual
\* put.
KvPut(w) ==
  /\ backing = "kv"
  /\ \/ writers[w].pc = "got"
     \/ writers[w].pc = "start" /\ writers[w].manuallyAdded
  /\ SetStore(workerStorage_addStrmEntry_put(Store, writers[w].got, writers[w], now))
  /\ writers' = [writers EXCEPT ![w].pc = "done"]
  /\ UNCHANGED <<heap, backing, now, ticks, obs>>
  /\ UNCHANGED pipeVars
  /\ UNCHANGED davVars
  /\ UNCHANGED twin
  /\ UNCHANGED urlAt
  /\ UNCHANGED http

\* The two writes: on the local file, a put for L1 and a put or an
\* updateUrl for L2 (updateUrl when the file holds L2); on the KV store, a
\* manual and a passive put for L1.
NodeWriterPairs ==
  { << Writer("put", "L1", PayloadA("L1"), m, ""), w2 >> :
      m \in BOOLEAN,
      w2 \in {Writer("put", "L2", PayloadB("L2"), TRUE, ""),
              Writer("updateUrl", "L2", PayloadB("L2"), TRUE, "u3")} }
KvWriterPairs ==
  { << Writer("put", "L1", PayloadA("L1"), TRUE, ""),
       Writer("put", "L1", PayloadB("L1"), FALSE, "") >> }

WritersInit ==
  /\ backing \in {"node", "kv"}
  /\ StoreInit
  /\ now = FORTY_EIGHT_HOURS_MS
  /\ ticks = 0
  /\ obs = NoObs
  /\ PipeIdle
  /\ DavIdle
  /\ heap = NoHeap
  /\ twin = NoTwin
  /\ urlAt = NoUrlAt
  /\ http = NoHttp
  /\ writers \in (IF backing = "node" THEN NodeWriterPairs ELSE KvWriterPairs)
  /\ (\E w \in Writers : writers[w].op = "updateUrl") => cacheFile.exists

WritersNext ==
  \/ NodeWarm
  \/ \E w \in Writers : NodeLoad(w)
  \/ \E w \in Writers : NodeReadFile(w)
  \/ \E w \in Writers : NodeMutate(w)
  \/ \E w \in Writers : NodeMkdir(w)
  \/ \E w \in Writers : NodeWriteFile(w)
  \/ \E w \in Writers : KvGet(w)
  \/ \E w \in Writers : KvPut(w)

SpecWriters == WritersInit /\ [][WritersNext]_vars

---------------------------------------------------------------------------
(* src/src/storage.js - the same calls made on nodeStorage and on          *)
(* workerStorage, both empty at the start, under one clock.  nodeStorage   *)
(* reads and writes nodeStrmCache and the file, workerStorage the KV       *)
(* namespace.                                                              *)

TwinPut(id, p, manuallyAdded) ==
  /\ SetStore(workerStorage_addStrmEntry(
                nodeStorage_addStrmEntry(Store, id, p.originalLink, p.unrestrictedUrl,
                                         p.filename, manuallyAdded, p.filesize, now, TRUE),
                id, p.originalLink, p.unrestrictedUrl, p.filename, manuallyAdded,
                p.filesize, now, TRUE))
  /\ twin' = [NoTwin EXCEPT !.op = "put", !.id = id]
  /\ UNCHANGED <<backing, now, ticks, obs>>
  /\ UNCHANGED pipeVars
  /\ UNCHANGED davVars
  /\ UNCHANGED writerVars
  /\ UNCHANGED urlAt
  /\ UNCHANGED http

TwinUpdateUrl(id, url) ==
  /\ SetStore(workerStorage_updateStrmUrl(
                nodeStorage_updateStrmUrl(Store, id, url, now, TRUE), id, url, now, TRUE))
  /\ twin' = [NoTwin EXCEPT !.op = "updateUrl", !.id = id]
  /\ UNCHANGED <<backing, now, ticks, obs>>
  /\ UNCHANGED pipeVars
  /\ UNCHANGED davVars
  /\ UNCHANGED writerVars
  /\ UNCHANGED urlAt
  /\ UNCHANGED http

TwinGet(id) ==
  /\ \E n \in {nodeStorage_getStrmEntry(Store, id)} :
       \E k \in {workerStorage_getStrmEntry(n.S, id, now)} :
         /\ SetStore(k.S)
         /\ twin' = [NoTwin EXCEPT !.op = "get", !.id = id,
                                   !.node = n.ret, !.kv = k.ret]
  /\ UNCHANGED <<backing, now, ticks, obs>>
  /\ UNCHANGED pipeVars
  /\ UNCHANGED davVars
  /\ UNCHANGED writerVars
  /\ UNCHANGED urlAt
  /\ UNCHANGED http

\* The two arrays of entries are compared whatever their order: each is
\* kept by key.
TwinListAll ==
  /\ \E n \in {nodeStorage_getAllStrmEntries(Store)} :
       \E k \in {workerStorage_getAllStrmEntries(n.S, now)} :
         /\ SetStore(k.S)
         /\ twin' = [NoTwin EXCEPT !.op = "listAll", !.node = n.ret, !.kv = k.ret]
  /\ UNCHANGED <<backing, now, ticks, obs>>
  /\ UNCHANGED pipeVars
  /\ UNCHANGED davVars
  /\ UNCHANGED writerVars
  /\ UNCHANGED urlAt
  /\ UNCHANGED http

TwinTick(d) ==
  /\ ticks < MaxTicks
  /\ now' = now + d
  /\ ticks' = ticks + 1
  /\ twin' = NoTwin
  /\ UNCHANGED <<backing, nodeStrmCache, cacheFile, kv, obs>>
  /\ UNCHANGED pipeVars
  /\ UNCHANGED davVars
  /\ UNCHANGED writerVars
  /\ UNCHANGED urlAt
  /\ UNCHANGED http

TwinInit ==
  /\ backing = "twin"
  /\ StoreInit
  /\ now = 0
  /\ ticks = 0
  /\ obs = NoObs
  /\ PipeIdle
  /\ DavIdle
  /\ heap = NoHeap
  /\ writers = <<>>
  /\ twin = NoTwin
  /\ urlAt = NoUrlAt
  /\ http = NoHttp

TwinNext ==
  \/ \E d \in Deltas : TwinTick(d)
  \/ \E i \in PutInputs : TwinPut(i.id, i.p, i.manuallyAdded)
  \/ \E id \in WrittenIds, u \in FreshUrls : TwinUpdateUrl(id, u)
  \/ \E id \in LinkIds : TwinGet(id)
  \/ TwinListAll

SpecTwin == TwinInit /\ [][TwinNext]_vars

\* ---------------------------------------------------------------------------
\* Properties of the virtual directories (SpecDav)
\* ---------------------------------------------------------------------------

\* A listing of the downloads feed has been composed from an upstream answer.
ObservedListed == dav.op \in {"list", "home"} /\ feed.kind = "downloads" /\ dav.upOk

\* The feed entry a listed entry was made from.
FeedOf(e) == feed.data[e.src]
GeneratedMs(d) == getTime(d.generated)

\* C12: a listing composed from the downloads feed (WebDAV /downloads/ and
\* home page) has at most one entry per feed id, and the feed entry kept for
\* an id is one with the latest generation time among the feed entries of
\* that id.
C12_OnePerIdLatest ==
  ObservedListed =>
    /\ \A i, j \in 1..Len(dav.files) :
         FeedOf(dav.files[i]).id = FeedOf(dav.files[j]).id => i = j
    /\ \A i \in 1..Len(dav.files) : \A k \in 1..Len(feed.data) :
         feed.data[k].id = FeedOf(dav.files[i]).id =>
           GeneratedMs(feed.data[k]) <= GeneratedMs(FeedOf(dav.files[i]))

\* Two feed entries share an id, the later one comes second in the feed, and
\* the listing holds the later one.
C12_Witness ==
  /\ ObservedListed
  /\ dav.op = "list"
  /\ \E i \in 1..Len(dav.files) : \E k \in 1..Len(feed.data) :
       /\ feed.data[k].id = FeedOf(dav.files[i]).id
       /\ k < dav.files[i].src
       /\ GeneratedMs(feed.data[k]) < GeneratedMs(FeedOf(dav.files[i]))

\* The same on the home page.
C12_HomeReached ==
  /\ ObservedListed
  /\ dav.op = "home"
  /\ \E i \in 1..Len(dav.files) : \E k \in 1..Len(feed.data) :
       /\ feed.data[k].id = FeedOf(dav.files[i]).id
       /\ k < dav.files[i].src
       /\ GeneratedMs(feed.data[k]) < GeneratedMs(FeedOf(dav.files[i]))


\* The ids of the feed, and the latest generation time of an id.
FeedIds == {feed.data[k].id : k \in 1..Len(feed.data)}
LatestMs(id) ==
  CHOOSE t \in {GeneratedMs(feed.data[k]) : k \in {k1 \in 1..Len(feed.data) : feed.data[k1].id = id}} :
    \A k \in 1..Len(feed.data) : feed.data[k].id = id => GeneratedMs(feed.data[k]) <= t

DirectoryListed == dav.op \in {"list", "webdav"} /\ dav.upOk

\* The source items of the directory listed: the entries of the downloads
\* feed, the casted links that carry an updatedAt, the cache entries.
SourceItems ==
  CASE feed.kind = "downloads" ->
         {[name |-> StrmName(feed.data[k].filename), ms |-> GeneratedMs(feed.data[k])] :
            k \in 1..Len(feed.data)}
    [] feed.kind = "casted" ->
         {[name |-> strmFilename(castedFilename(feed.data[k]), feed.data[k].hash,
                                 feed.data[k].imdbId),
           ms |-> getTime(Val(feed.data[k].updatedAt))] :
            k \in {k1 \in 1..Len(feed.data) : ~IsNull(feed.data[k1].updatedAt)}}
    [] OTHER ->
         {[name |-> StrmName(<<Val(HeldNow(id)).filename>>),
           ms |-> getTime(Val(HeldNow(id)).generatedAt)] :
            id \in {id1 \in LinkIds : ~IsNull(HeldNow(id1))}}

\* C14: a materialized virtual directory has no two entries of the same
\* name, and the entry kept for a name has the greatest modified time among
\* the source items of that name.
C14_UniqueNamesLatest ==
  DirectoryListed =>
    /\ \A i, j \in 1..Len(dav.files) :
         dav.files[i].name = dav.files[j].name => i = j
    /\ \A i \in 1..Len(dav.files) : \A s \in SourceItems :
         s.name = dav.files[i].name => s.ms <= getTime(dav.files[i].modified)

\* The same for the directories of strmCache.js only, and only the part on
\* names: /downloads/ and /dmmcast/ list no name twice.
C14_AppNamesUnique ==
  (DirectoryListed /\ dav.op = "list") =>
    \A i, j \in 1..Len(dav.files) :
      dav.files[i].name = dav.files[j].name => i = j


\* A GET for a name that ends in .strm has been answered.
StrmResolved == dav.op = "get" /\ dav.name[Len(dav.name)] = ".strm"

\* The listing of the directory the GET was made in, for the same upstream
\* answer.
ListingNow ==
  IF feed.kind = "downloads"
  THEN getRealDebridWebDAVFiles(feed.data, dav.upOk)
  ELSE getDMMCastWebDAVFiles(feed.data, now, dav.upOk)

\* C15: for a fixed upstream answer, GET /downloads/<name> and
\* GET /dmmcast/<name> with a name ending in .strm return content u exactly
\* when the listing of the directory has an entry of that name with content
\* u, and 404 when it has no entry of that name.
C15_ResolveMatchesListing ==
  StrmResolved =>
    /\ \A i \in 1..Len(ListingNow) :
         ListingNow[i].name = dav.name =>
           dav.status = 200 /\ dav.body = Some(ListingNow[i].content)
    /\ (\A i \in 1..Len(ListingNow) : ListingNow[i].name # dav.name) =>
         dav.status = 404 /\ dav.body = Null

\* A file is served whose name two downloads of different ids share.
C15_Witness ==
  /\ StrmResolved
  /\ feed.kind = "downloads"
  /\ dav.status = 200
  /\ \E k1, k2 \in 1..Len(feed.data) :
       /\ feed.data[k1].id # feed.data[k2].id
       /\ StrmName(feed.data[k1].filename) = dav.name
       /\ StrmName(feed.data[k2].filename) = dav.name

\* A casted file is served, and a name that is not listed is not found.
C15_CastedReached == StrmResolved /\ feed.kind = "casted" /\ dav.status = 200
C15_NotFoundReached == StrmResolved /\ dav.status = 404 /\ dav.upOk /\ Len(feed.data) > 0


\* A DELETE /dmmcast/<name> has been answered.
Deleted == dav.op = "delete"

\* name ends in {hash-<h>}{imdb-<i>}.strm, where <h> is the parts a..b and
\* <i> the parts c..d of the name, both non-empty and without "}".
EndsInTags(name, a, b, c, d) ==
  /\ 1 < a /\ a <= b /\ b + 3 = c /\ c <= d /\ d + 2 = Len(name)
  /\ name[a - 1] = "{hash-"
  /\ name[b + 1] = "}"
  /\ name[b + 2] = "{imdb-"
  /\ name[d + 1] = "}"
  /\ name[d + 2] = ".strm"
  /\ \A p \in (a..b) \cup (c..d) : name[p] # "}"
HasDeleteForm(name) ==
  \E a, b, c, d \in 1..Len(name) : EndsInTags(name, a, b, c, d)

\* C16: DELETE /dmmcast/<name> for a name that does not end in
\* {hash-<h>}{imdb-<i>}.strm with non-empty <h> and <i> answers 400 and sends
\* nothing to the upstream casted-link API.
C16_MalformedNoUpstream ==
  (Deleted /\ ~HasDeleteForm(dav.name)) =>
    dav.status = 400 /\ dav.upstream = <<>>

\* A name with a hash tag that still lacks the form has been refused.
C16_Witness ==
  /\ Deleted
  /\ ~HasDeleteForm(dav.name)
  /\ \E p \in 1..Len(dav.name) : dav.name[p] = "{hash-"
  /\ \E p \in 1..Len(dav.name) : dav.name[p] = "{imdb-"
  /\ dav.status = 400

\* The tags are followed by more text, and the name has been refused.
C16_TrailingReached ==
  /\ Deleted
  /\ Len(dav.name) > 1
  /\ HasDeleteForm(SubSeq(dav.name, 1, Len(dav.name) - 1))
  /\ dav.status = 400

\* A hash or an IMDb id: text without braces.
Braces == {"{hash-", "{imdb-", "}"}
PlainText(name, a, b) == \A p \in a..b : name[p] \notin Braces

\* C17: DELETE /dmmcast/<name> for a name T{hash-h}{imdb-i}.strm, whatever
\* T contains, sends exactly one delete request upstream, with hash = h and
\* imdbId = i.
C17_ForwardsHashAndImdb ==
  Deleted =>
    \A a, b, c, d \in 1..Len(dav.name) :
      (/\ EndsInTags(dav.name, a, b, c, d)
       /\ PlainText(dav.name, a, b)
       /\ PlainText(dav.name, c, d)) =>
        /\ Len(dav.upstream) = 1
        /\ dav.upstream[1].hash = SubSeq(dav.name, a, b)
        /\ dav.upstream[1].imdbId = SubSeq(dav.name, c, d)

\* The part of the claim that holds: a name of the form sends exactly one
\* request upstream.
C17_ExactlyOneRequest ==
  (Deleted /\ HasDeleteForm(dav.name)) => Len(dav.upstream) = 1


\* The casted directory has been listed.
CastedListed == dav.op = "list" /\ feed.kind = "casted"

\* The casted link a listed entry was made from, and its update time.
LinkOf(e) == feed.data[e.src]
UpdatedMs(link) == getTime(Val(link.updatedAt))

C18_ExcludedReached ==
  /\ CastedListed
  /\ dav.upOk
  /\ dav.files = <<>>
  /\ Len(feed.data) = 2
  /\ IsNull(feed.data[1].updatedAt)
  /\ ~IsNull(feed.data[2].updatedAt)


\* ---------------------------------------------------------------------------
\* Properties of two writes in progress at once (SpecWriters)
\* ---------------------------------------------------------------------------

\* Both writes have completed.
AllDone == writers # <<>> /\ \A w \in Writers : writers[w].pc = "done"

\* The payload fields of entry e are those of p.
SamePayload(e, p) ==
  /\ e.originalLink = p.originalLink
  /\ e.unrestrictedUrl = p.unrestrictedUrl
  /\ e.filename = p.filename
  /\ e.filesize = p.filesize

\* The update of write w is present in the cache: its identifier holds the
\* entry put, or the URL it set.
Present(w) ==
  /\ ~IsNull(HeldNow(w.id))
  /\ IF w.op = "put"
     THEN SamePayload(Val(HeldNow(w.id)), w.p)
     ELSE Val(HeldNow(w.id)).unrestrictedUrl = w.url

\* C19: on the local-file backing, when two writes for different
\* identifiers (two puts, or a put and an updateUrl) have run with their
\* load, mutate and save steps interleaved, both updates are present in the
\* cache once both have completed.
C19_NoLostUpdate ==
  (backing = "node" /\ AllDone) => \A w \in Writers : Present(writers[w])

\* C20: on the KV backing, when a manual put and a passive put for the same
\* identifier have run with their get and put steps in any order, the entry
\* is manually added and has the payload of the manual put.
C20_ManualWins ==
  (backing = "kv" /\ AllDone) =>
    /\ ~IsNull(HeldNow("L1"))
    /\ Val(HeldNow("L1")).manuallyAdded
    /\ \A w \in Writers :
         writers[w].manuallyAdded => SamePayload(Val(HeldNow("L1")), writers[w].p)


\* ---------------------------------------------------------------------------
\* Retention, equivalence of the backings and the manual flag (SpecCache)
\* ---------------------------------------------------------------------------

\* C21: on the KV backing every write of a key (put in both its branches,
\* updateUrl of an existing entry, also from the /strm handler) sets the
\* expiry of the key to at least 7 days after the second of the write.
C21_KvExpiryFromWrite ==
  [][backing = "kv" =>
       /\ \A k \in DOMAIN kv' :
            (k \notin DOMAIN kv \/ kv'[k] # kv[k]) =>
              kv'[k].expiration >= (now \div 1000) + 7 * 24 * 60 * 60
       /\ \A id \in LinkIds :
            (/\ obs'.id = id
             /\ \/ obs'.op = "put"
                \/ obs'.op = "updateUrl" /\ ~IsNull(HeldNow(id))) =>
              /\ id \in DOMAIN kv'
              /\ kv'[id].expiration >= (now \div 1000) + 7 * 24 * 60 * 60
    ]_vars

\* updateUrl has refreshed, two days or more after the start, an entry of
\* the KV store, whose key now expires 7 days from this write.
C21_Witness ==
  /\ backing = "kv"
  /\ obs.op = "updateUrl"
  /\ now >= FORTY_EIGHT_HOURS_MS
  /\ obs.id \in DOMAIN kv
  /\ kv[obs.id].value.unrestrictedUrl = obs.url
  /\ kv[obs.id].expiration = (now \div 1000) + 7 * 24 * 60 * 60

\* A passive put has refreshed a manually added entry of the KV store.
C21_PassiveReached ==
  /\ backing = "kv"
  /\ obs.op = "put" /\ ~obs.manual
  /\ now >= FORTY_EIGHT_HOURS_MS
  /\ obs.id \in DOMAIN kv
  /\ kv[obs.id].value.manuallyAdded
  /\ kv[obs.id].expiration = (now \div 1000) + 7 * 24 * 60 * 60


\* C22: the local-file backing and the KV backing return the same result
\* for every get and every listAll of one sequence of get, put, updateUrl
\* and listAll calls and clock advances.
C22_BackingsAgree ==
  twin.op \in {"get", "listAll"} => twin.node = twin.kv

\* The part that holds: as long as no entry is older than 7 days the two
\* backings return the same results.
C22_AgreeWithinRetention ==
  (twin.op \in {"get", "listAll"} /\ now < SEVEN_DAYS_MS) => twin.node = twin.kv


\* What getStrmEntry would return for the identifier after the step.
HeldNext(id) == HeldNow(id)'

\* C23: on the storage.js backings no step turns manuallyAdded from true to
\* false: an identifier that holds a manually added entry before a step and
\* still holds an entry after it holds a manually added entry.
C23_ManualNeverCleared ==
  [][(backing = "node" \/ backing = "kv") =>
       \A id \in LinkIds :
         (/\ ~IsNull(HeldNow(id))
          /\ Val(HeldNow(id)).manuallyAdded
          /\ ~IsNull(HeldNext(id))) =>
           Val(HeldNext(id)).manuallyAdded = TRUE
    ]_vars

\* A passive put has run, 7 days or more after the start, on the local-file
\* backing and its identifier holds a manually added entry.
C23_Witness ==
  /\ backing = "node"
  /\ obs.op = "put" /\ ~obs.manual
  /\ now >= SEVEN_DAYS_MS
  /\ ~IsNull(HeldNow(obs.id))
  /\ Val(HeldNow(obs.id)).manuallyAdded

\* updateUrl has run on a manually added entry of the KV store.
C23_UpdateReached ==
  /\ backing = "kv"
  /\ obs.op = "updateUrl"
  /\ now > 0
  /\ ~IsNull(HeldNow(obs.id))
  /\ Val(HeldNow(obs.id)).manuallyAdded
  /\ Val(HeldNow(obs.id)).unrestrictedUrl = obs.url


\* The object the stored cache holds, as the pruning of each file-backed
\* implementation reads it.
RawCache ==
  IF backing = "node" THEN nodeStorage_loadNodeStrmCache(Store).cache
  ELSE loadCache(Store)

\* C24: pruning a pruned cache at the same instant removes nothing more, and
\* a put, or an updateUrl on an identifier that holds an entry, leaves that
\* identifier with an entry whose generatedAt is the time of the call.
C24_PruneKeepsWritten ==
  [][/\ nodeStorage_cleaned(nodeStorage_cleaned(RawCache, now), now)
          = nodeStorage_cleaned(RawCache, now)
     /\ cleanupOldEntries(cleanupOldEntries(RawCache, now), now)
          = cleanupOldEntries(RawCache, now)
     /\ \A id \in LinkIds :
          (/\ obs'.id = id
           /\ \/ obs'.op = "put"
              \/ obs'.op = "updateUrl" /\ ~IsNull(HeldNow(id))) =>
            /\ ~IsNull(HeldNext(id))
            /\ Val(HeldNext(id)).generatedAt = toISOString(now)
    ]_vars

\* A passive put has run on the local-file backing once the entry left by an
\* earlier process had aged out and was pruned, and the identifier written
\* holds a manually added entry stamped with the time of the call.
C24_Witness ==
  /\ backing = "node"
  /\ obs.op = "put" /\ ~obs.manual
  /\ now >= SEVEN_DAYS_MS
  /\ "L2" \notin DOMAIN RawCache
  /\ cacheFile.exists /\ "L2" \notin DOMAIN cacheFile.data
  /\ ~IsNull(HeldNow(obs.id))
  /\ Val(HeldNow(obs.id)).manuallyAdded
  /\ Val(HeldNow(obs.id)).generatedAt = toISOString(now)

\* The stored cache holds an entry that pruning at this instant removes.
C24_StaleReached ==
  /\ backing \in {"node", "legacy"}
  /\ DOMAIN cleanupOldEntries(RawCache, now) # DOMAIN RawCache
  /\ obs.op = "updateUrl"
  /\ ~IsNull(HeldNow(obs.id))
  /\ Val(HeldNow(obs.id)).generatedAt = toISOString(now)


---------------------------------------------------------------------------
(* Further properties of the pipeline (SpecPipe) *)

\* The positions, in the polled file list of a completeSelection run, of the
\* files with the requested id and the selected flag.
ChosenIdx ==
  {i \in 1..Len(Val(run.info).files) :
     /\ toString(Val(run.info).files[i].id) = run.fileId
     /\ Val(run.info).files[i].selected = 1}

\* C25: a successful completeSelection reports the path and byte size of the
\* file of the polled list whose id is the requested one and which is marked
\* selected, and the session's filename and bytes if there is none; the cache
\* entry the run wrote carries the reported filename.
C25_ReportsChosenFile ==
  (Succeeded /\ run.kind = "completeSelection") =>
    /\ IF ChosenIdx # {}
       THEN \E i \in ChosenIdx :
              /\ \A j \in ChosenIdx : i <= j
              /\ result.filename = Val(run.info).files[i].path
              /\ result.bytes = Val(run.info).files[i].bytes
       ELSE /\ result.filename = Val(run.info).filename
            /\ result.bytes = Val(run.info).bytes
    /\ Count(calls, "addStrmEntry") > 0 =>
         /\ ~IsNull(HeldNow(Val(extractLinkId(Val(run.originalLink)))))
         /\ Val(HeldNow(Val(extractLinkId(Val(run.originalLink))))).filename = result.filename

\* completeSelection with the id of the second of at least two large files
\* has succeeded, reported that file and written it to the cache.
C25_Witness ==
  /\ Succeeded /\ run.kind = "completeSelection"
  /\ run.fileId = toString(2)
  /\ Len(Val(run.info).files) >= 2
  /\ \A i \in 1..2 : i \in LargeIdx(Val(run.info).files)
  /\ ChosenIdx = {2}
  /\ result.filename = PathOf(2)
  /\ result.bytes = TWO_MB + 2
  /\ Count(calls, "addStrmEntry") > 0
  /\ Val(HeldNow("L1")).filename = PathOf(2)

\* completeSelection has succeeded on a list that holds the requested id
\* without the selected flag, and reported the session's own name.
C25_FallbackReached ==
  /\ Succeeded /\ run.kind = "completeSelection"
  /\ run.fileId = toString(2)
  /\ Len(Val(run.info).files) >= 2
  /\ ChosenIdx = {}
  /\ result.filename = "pack"


---------------------------------------------------------------------------
(* Failures of the upstream while a directory is served (SpecDav) *)

\* C26: a listing, or the resolution of one file, made while the upstream
\* call fails is answered differently from the listing of an empty directory
\* and from the answer for a name the directory does not hold.
C26_UpstreamFailureDistinct ==
  (dav.op \in {"list", "get"} /\ ~dav.upOk) =>
    /\ dav.op = "list" => <<dav.status, dav.files>> # <<207, <<>>>>
    /\ dav.op = "get" =>
         <<dav.status, dav.body>> #
           <<GetFileHandler(<<>>, dav.name).status, GetFileHandler(<<>>, dav.name).body>>


---------------------------------------------------------------------------
(* The caller's address in the unrestrict request (SpecPipe) *)

\* A well-formed IPv4 address outside 10/8, 172.16/12, 192.168/16, 127/8,
\* 169.254/16 and 0/8 and below 224.0.0.0.
PublicIPv4(ip) ==
  /\ ip.kind = "digits" /\ ~ip.mapped
  /\ Len(ip.parts) = 4
  /\ \A i \in 1..4 : ip.parts[i] \in 0..255
  /\ ip.parts[1] \notin {0, 10, 127}
  /\ ~(ip.parts[1] = 172 /\ ip.parts[2] \in 16..31)
  /\ ~(ip.parts[1] = 192 /\ ip.parts[2] = 168)
  /\ ~(ip.parts[1] = 169 /\ ip.parts[2] = 254)
  /\ ip.parts[1] < 224

\* The ip parameter the claim gives the unrestrict request of this run.
ExpectedIp ==
  IF PublicIPv4(getUserIP(Val(run.caller))) THEN Some(getUserIP(Val(run.caller)))
  ELSE Null

\* C27: every unrestrict request of a run carries the caller's address as
\* its ip parameter when that address is a public IPv4 address, and no ip
\* parameter otherwise.
C27_ForwardsPublicIPv4Only ==
  \A i \in 1..Len(calls) :
    calls[i][1] = "unrestrictLink" => calls[i][3] = ExpectedIp

\* Addresses around every boundary of isPublicIP.
BoundaryAddrs ==
  { Ipv4(a, b, 0, 5) : a \in {0, 1, 9, 10, 11, 126, 127, 128, 169, 172, 192, 223, 224, 255},
                       b \in {0, 15, 16, 31, 32, 167, 168, 253, 254} }
    \cup { UnknownIp, IpText("empty", FALSE, <<>>), IpText("other", FALSE, <<>>),
           IpText("digits", FALSE, <<2001>>), IpText("digits", TRUE, <<8, 8, 8, 8>>) }

\* The same property for the handlers of strmCache.js alone, whose routes
\* pass getPublicIP(c) on; isPublicIP agrees with the ranges of the claim.
C27_AppForwardsPublicIPv4Only ==
  /\ variant = "app" =>
       \A i \in 1..Len(calls) :
         calls[i][1] = "unrestrictLink" => calls[i][3] = ExpectedIp
  /\ \A ip \in BoundaryAddrs : isPublicIP(ip) = PublicIPv4(ip)


---------------------------------------------------------------------------
(* Failed runs (SpecPipe) *)

\* C28: when a run has ended in failure at an upstream step (addTorrent, a
\* poll, selectFiles, unrestrict or deleteTorrent), the LinkCache holds for
\* every identifier the entry it held when the run began.
C28_FailedRunLeavesCache ==
  (/\ pc = "done" /\ result.kind = "error"
   /\ Count(calls, "addStrmEntryFailed") = 0) =>
    \A id \in LinkIds : HeldNow(id) = run.before[id]

\* The same for the runs that fail before their cache write: at addTorrent,
\* at a poll, at selectFiles or at unrestrict.
C28_EarlyFailureLeavesCache ==
  (/\ pc = "done" /\ result.kind = "error"
   /\ Count(calls, "addStrmEntry") = 0
   /\ Count(calls, "addStrmEntryFailed") = 0) =>
    \A id \in LinkIds : HeldNow(id) = run.before[id]


---------------------------------------------------------------------------
(* The cache after a listing of the observed downloads (SpecDav) *)

\* The identifiers of the feed items a listing of the observed downloads
\* covers: in /webdav/ the link ids that can be extracted, in /downloads/
\* the ids of the downloads whose file is listed.
ObservedIds(files) ==
  IF feed.kind = "recent"
  THEN {Val(extractLinkId(feed.data[i].link)) :
          i \in {j \in 1..Len(feed.data) : ~IsNull(extractLinkId(feed.data[j].link))}}
  ELSE {feed.data[i].id :
          i \in {j \in 1..Len(feed.data) :
                   \E k \in 1..Len(files) : files[k].src = feed.data[j].src}}

\* What the listing step must leave under the identifier.
ObservedWritten(id) ==
  /\ ~IsNull(HeldNext(id))
  /\ IF ~IsNull(HeldNow(id)) /\ Val(HeldNow(id)).manuallyAdded
     THEN HeldNext(id) = Some([Val(HeldNow(id)) EXCEPT !.generatedAt = toISOString(now)])
     ELSE Val(HeldNext(id)).manuallyAdded = FALSE

ObservedListingStep ==
  /\ dav.op = "none"
  /\ dav'.upOk
  /\ \/ dav'.op = "webdav" /\ feed.kind = "recent"
     \/ dav'.op = "list" /\ feed.kind = "downloads"

\* C29: a completed listing of the observed downloads leaves, for every item
\* it covers, a LinkCache entry under the item's identifier: a manually
\* added entry that was there with only its generatedAt refreshed, otherwise
\* an entry with manuallyAdded = false.
C29_ObservedItemsCached ==
  [][ObservedListingStep => \A id \in ObservedIds(dav'.files) : ObservedWritten(id)]_vars

\* The same for the /webdav/ listing of worker-combined.js alone, and for the
\* identifiers that hold no entry older than the retention window.
C29_WebdavItemsCached ==
  [][(ObservedListingStep /\ feed.kind = "recent") =>
       \A id \in ObservedIds(dav'.files) :
         (\/ IsNull(HeldNow(id))
          \/ now - getTime(Val(HeldNow(id)).generatedAt) < SEVEN_DAYS_MS) =>
           ObservedWritten(id)]_vars

\* A /webdav/ listing has refreshed a manually added entry that was within
\* the retention window.
C29_RefreshReached ==
  /\ dav.op = "webdav" /\ dav.upOk /\ feed.kind = "recent"
  /\ \E i \in 1..Len(feed.data) : feed.data[i].link = RdLink("L2")
  /\ ~IsNull(HeldNow("L2"))
  /\ Val(HeldNow("L2")).manuallyAdded
  /\ Val(HeldNow("L2")).generatedAt = toISOString(now)


---------------------------------------------------------------------------
(* The answer of DELETE /dmmcast/<name> (SpecDav) *)

\* C30: a DELETE that reached the upstream sent one request; when the
\* upstream answered with a success status the response is 204 without a
\* body, and when it answered with another status the response has that
\* status and a body that holds the upstream body.
C30_DeleteReportsUpstream ==
  (Deleted /\ dav.upstream # <<>> /\ ~Val(dav.answer).throws) =>
    /\ Len(dav.upstream) = 1
    /\ IF Val(dav.answer).status \in 200..299
       THEN dav.status = 204 /\ IsNull(dav.body)
       ELSE /\ dav.status = Val(dav.answer).status
            /\ ~IsNull(dav.body)
            /\ \E p \in 1..Len(Val(dav.body)) : Val(dav.body)[p] = Val(dav.answer).body

\* The upstream has answered a DELETE with 404 and the response is 404.
C30_Witness ==
  /\ Deleted /\ dav.upstream # <<>>
  /\ ~Val(dav.answer).throws
  /\ Val(dav.answer).status = 404
  /\ dav.status = 404

\* The upstream has answered a DELETE with 200 and the response is 204.
C30_SuccessReached ==
  /\ Deleted /\ dav.upstream # <<>>
  /\ ~Val(dav.answer).throws
  /\ Val(dav.answer).status = 200
  /\ dav.status = 204


---------------------------------------------------------------------------
(* Freshness of the URL served (SpecCache) *)

\* C31: every entry's generatedAt is the time its unrestrictedUrl reached
\* the cache, and GET /strm/<id> redirects without an unrestrict call only
\* to a URL that reached the cache no more than 48 hours before the request.
C31_GeneratedAtIsUrlTime ==
  /\ \A id \in LinkIds :
       ~IsNull(HeldNow(id)) => getTime(Val(HeldNow(id)).generatedAt) = urlAt[id]
  /\ (/\ obs.op = "strm"
      /\ obs.ucalls = <<>>
      /\ obs.served # NotFound) =>
       now - urlAt[obs.id] <= FORTY_EIGHT_HOURS_MS

\* The part of the claim that holds: what GET /strm/<id> serves without an
\* unrestrict call comes from an entry whose generatedAt is no more than
\* 48 hours before the request.
C31_ServedWithinGeneratedAt ==
  (/\ obs.op = "strm"
   /\ obs.ucalls = <<>>
   /\ obs.served # NotFound) =>
    /\ ~IsNull(HeldNow(obs.id))
    /\ now - getTime(Val(HeldNow(obs.id)).generatedAt) <= FORTY_EIGHT_HOURS_MS


---------------------------------------------------------------------------
(* Retention as get sees it (SpecCache) *)

\* C32: get never returns an entry whose generatedAt lies more than 7 x 24h
\* before the time of the call.
C32_GetWithinRetention ==
  (obs.op = "get" /\ ~IsNull(obs.got)) =>
    now - getTime(Val(obs.got).generatedAt) <= SEVEN_DAYS_MS

\* The same for the KV store and for getEntry of strmCache.js, which do leave
\* out what has aged.
C32_GetWithinRetentionPruned ==
  (obs.op = "get" /\ ~IsNull(obs.got) /\ backing # "node") =>
    now - getTime(Val(obs.got).generatedAt) < SEVEN_DAYS_MS


---------------------------------------------------------------------------
(* Sessions left pending (SpecPipe) *)

\* C33: when resolve answers PendingSelection the session it created still
\* exists, the run has issued no deleteTorrent and the LinkCache is as the
\* run found it; a session leaves the upstream account only by the
\* deleteTorrent of the run that works on it, and the session an earlier
\* request left pending only by a completeSelection for its id.
C33_PendingKeepsSession ==
  [][/\ (pc' = "done" /\ result'.kind = "pending") =>
          /\ run'.torrentId \in sessions'
          /\ Count(calls', "deleteTorrent") = 0
          /\ \A id \in LinkIds : HeldNext(id) = run'.before[id]
     /\ \A t \in sessions \ sessions' :
          /\ pc = "deleteTorrent"
          /\ t = run.torrentId
          /\ t = "T0" => run.kind = "completeSelection"
    ]_vars

\* resolve has answered PendingSelection; its session and the one left by an
\* earlier request both exist.
C33_Witness ==
  /\ pc = "done" /\ result.kind = "pending"
  /\ run.kind = "resolve"
  /\ run.torrentId = "T1"
  /\ {"T0", "T1"} \subseteq sessions
  /\ Count(calls, "deleteTorrent") = 0

\* completeSelection has deleted the session that was left pending.
C33_CompletedReached ==
  /\ Succeeded /\ run.kind = "completeSelection"
  /\ run.torrentId = "T0"
  /\ "T0" \notin sessions


---------------------------------------------------------------------------
(* Termination of a run (SpecPipeFair) *)

\* The steps of a run in progress: every upstream call, settle delay and
\* cache write returning or failing.
RunStep ==
  \/ AddTorrentFails
  \/ AddTorrentReturns("T1")
  \/ Settle
  \/ GetTorrentInfoFails
  \/ /\ pc = "getTorrentInfo"
     /\ \E info \in InfosBeforeSelection(run.torrentId) \cup InfosOther(run.torrentId) :
          PollReturns(info)
  \/ SelectFilesFails
  \/ SelectFilesReturns
  \/ /\ pc = "getTorrentInfo"
     /\ \E info \in InfosOther(run.torrentId) : PollAfterSelectionReturns(info)
  \/ UnrestrictLinkFails
  \/ \E u \in FreshUrls : UnrestrictLinkReturns(u)
  \/ \E ok \in BOOLEAN : AddStrmEntryReturns(ok)
  \/ DeleteTorrentFails
  \/ DeleteTorrentReturns

\* processMagnet / processSelectedFile under the assumption that every
\* awaited call eventually returns or fails.
\* The caller's address plays no part in whether a run ends: one caller.
FairNext ==
  \/ \E m \in MagnetInputs : Resolve(m, Context(Null, Null, <<>>, Null))
  \/ \E t \in {"T0", "T9"}, f \in {toString(i) : i \in 1..MaxFiles} :
       CompleteSelection(t, f, Context(Null, Null, <<>>, Null))
  \/ RunStep

SpecPipeFair == PipeInit /\ [][FairNext]_vars /\ WF_vars(RunStep)

Running == pc \notin {"idle", "done"}

\* C34: a run that has started ends, and ends in exactly one of a resolved
\* media, a pending selection or a failure, having held at most two settle
\* delays and at most two polls.
C34_RunTerminates ==
  Running ~> (/\ pc = "done"
              /\ result.kind \in {"success", "pending", "error"}
              /\ Count(calls, "settle") <= 2
              /\ Count(calls, "getTorrentInfo") <= 2)

\* A resolve run with an auto-selected file has ended after two settle delays.
C34_Witness ==
  /\ pc = "done"
  /\ run.kind = "resolve"
  /\ Count(calls, "settle") = 2
  /\ result.kind = "success"

\* A completeSelection run has ended in a failure after one settle delay.
C34_SelectionFailedReached ==
  /\ pc = "done"
  /\ run.kind = "completeSelection"
  /\ Count(calls, "settle") = 1
  /\ result.kind = "error"


---------------------------------------------------------------------------
(* What the /webdav/ listing shows (SpecDav) *)

WebdavListed == dav.op = "webdav" /\ feed.kind = "recent"

\* The link ids of the recent downloads the request fetched.
FetchedIds ==
  IF dav.upOk
  THEN {id \in LinkIds : \E i \in 1..Len(feed.data) : feed.data[i].link = RdLink(id)}
  ELSE {}

ListedIds == {dav.files[i].content[2] : i \in 1..Len(dav.files)}

\* C35: every file of the /webdav/ listing is for a link id the request's
\* recent-downloads fetch returned, or for a manually added entry younger
\* than 7 days; a stored entry that is not manually added and whose id the
\* fetch did not return is not listed.
C35_ListedRecentOrManual ==
  WebdavListed =>
    /\ \A i \in 1..Len(dav.files) :
         \/ dav.files[i].content[2] \in FetchedIds
         \/ /\ ~IsNull(HeldNow(dav.files[i].src))
            /\ Val(HeldNow(dav.files[i].src)).manuallyAdded
            /\ dav.files[i].modified = Val(HeldNow(dav.files[i].src)).generatedAt
            /\ now - getTime(dav.files[i].modified) < SEVEN_DAYS_MS
    /\ \A id \in LinkIds :
         (/\ ~IsNull(HeldNow(id))
          /\ ~Val(HeldNow(id)).manuallyAdded
          /\ id \notin FetchedIds) => id \notin ListedIds

\* A listing has left out a stored, passively observed entry whose id is no
\* longer among the recent downloads, and shows another entry.
C35_Witness ==
  /\ WebdavListed /\ dav.upOk
  /\ ~IsNull(HeldNow("L1"))
  /\ ~Val(HeldNow("L1")).manuallyAdded
  /\ "L1" \notin FetchedIds
  /\ "L1" \notin ListedIds
  /\ dav.files # <<>>

\* A listing shows a manually added entry that the fetch did not return.
C35_ManualReached ==
  /\ WebdavListed
  /\ \E i \in 1..Len(dav.files) : dav.files[i].content[2] \notin FetchedIds


---------------------------------------------------------------------------
(* The key of a LinkCache entry (SpecStore) *)

\* Every key with its entry, in the loaded object, the file and the KV store.
StoredPairs ==
  {<<k, nodeStrmCache.map[k]>> : k \in DOMAIN nodeStrmCache.map}
    \cup {<<k, cacheFile.data[k]>> : k \in DOMAIN cacheFile.data}
    \cup {<<k, kv[k].value>> : k \in DOMAIN kv}

KeyedByLinkId == \A p \in StoredPairs : extractLinkId(p[2].originalLink) = Some(p[1])

\* The routes that write the cache, each through extractLinkId: manual
\* resolutions and passive observations (StoreLink), URL refreshes
\* (UpdateUrl, Strm), with the clock advancing and the process restarting.
RouteInit ==
  /\ CacheInit
  /\ backing \in {"node", "kv"}

StoreNext ==
  \/ \E d \in Deltas : Tick(d)
  \/ Restart
  \/ \E link \in StoredLinks \cup {ShortLink, OtherPathLink}, m \in BOOLEAN :
       StoreLink(link, m)
  \/ \E id \in WrittenIds, u \in FreshUrls : UpdateUrl(id, u)
  \/ \E id \in WrittenIds, o \in StrmOutcomes, u \in FreshUrls : Strm(id, o, u)

SpecStore == RouteInit /\ [][StoreNext]_vars

\* C36: after every resolution, passive observation, URL refresh, clock advance and
\* restart, each stored entry is under the key extractLinkId gives for its
\* originalLink; storing for a link without an identifier writes nothing.
C36_KeyIsLinkId ==
  [][/\ KeyedByLinkId'
     /\ (obs'.op = "store" /\ IsNull(extractLinkId(Val(obs'.got)))) =>
          UNCHANGED <<nodeStrmCache, cacheFile, kv>>]_vars

\* An entry stored by a route has had its URL refreshed and is still under
\* its link's identifier.
C36_Witness ==
  /\ obs.op = "strm" /\ obs.id = "L1" /\ obs.ucalls # <<>>
  /\ ~IsNull(HeldNow("L1"))
  /\ extractLinkId(Val(HeldNow("L1")).originalLink) = Some("L1")
  /\ Val(HeldNow("L1")).unrestrictedUrl = "u3"

\* A route has come to store a link without an identifier.
C36_SkippedReached ==
  /\ obs.op = "store"
  /\ IsNull(extractLinkId(Val(obs.got)))


---------------------------------------------------------------------------
(* Round trip of the casted-link filenames (SpecDav) *)

\* The casted links of the feed as the listing formats them.
CastedShown == getCastedLinks(feed.data, now, TRUE)

\* C37: the DELETE of the name the listing gives a casted link is accepted
\* and sends that link's hash and imdbId upstream, whatever its title holds.
C37_FilenameRoundTrip ==
  (Deleted /\ feed.kind = "casted") =>
    \A i \in 1..Len(CastedShown) :
      CastedShown[i].strmFilename = dav.name =>
        /\ Len(dav.upstream) = 1
        /\ dav.upstream[1].hash = CastedShown[i].hash
        /\ dav.upstream[1].imdbId = CastedShown[i].imdbId

\* The part that holds: the round trip for the links whose title holds no
\* brace or tag text.
C37_PlainTitleRoundTrip ==
  (Deleted /\ feed.kind = "casted") =>
    \A i \in 1..Len(CastedShown) :
      (/\ CastedShown[i].strmFilename = dav.name
       /\ PlainText(CastedShown[i].filename, 1, Len(CastedShown[i].filename))) =>
        /\ Len(dav.upstream) = 1
        /\ dav.upstream[1].hash = CastedShown[i].hash
        /\ dav.upstream[1].imdbId = CastedShown[i].imdbId

\* The name of a listed link with a plain title has been deleted.
C37_PlainReached ==
  /\ Deleted /\ feed.kind = "casted"
  /\ \E i \in 1..Len(CastedShown) :
       /\ CastedShown[i].strmFilename = dav.name
       /\ PlainText(CastedShown[i].filename, 1, Len(CastedShown[i].filename))


---------------------------------------------------------------------------
(* The file and the in-memory cache after concurrent writes (SpecWriters) *)

\* C38: on the local file, once both writes have completed, the file holds
\* what nodeStrmCache holds, so a restarted process reads the same entries.
C38_FileAgreesWithMemory ==
  (AllDone /\ backing = "node" /\ nodeStrmCache.loaded) =>
    /\ cacheFile.exists
    /\ cacheFile.data = nodeStrmCache.map


---------------------------------------------------------------------------
(* src/src/worker-combined.js, src/src/strmCache.js - who may call a route *)
(*                                                                         *)
(* A path is a sequence of pieces of text: '/add/select' is                *)
(* <<"/add", "/select">>, '/strm/L1' is <<"/strm/", "L1">>.                *)

\* getConfig(env) of a deployment whose required variables are set.
Config == [webdavUsername |-> "admin", webdavPassword |-> "secret"]

\* The Authorization header of a request: none, the configured pair, a
\* wrong password, a wrong user.
Credentials ==
  {Null, Some([username |-> "admin", password |-> "secret"]),
   Some([username |-> "admin", password |-> "guess"]),
   Some([username |-> "eve", password |-> "secret"])}

Methods == {"GET", "POST", "PROPFIND", "DELETE"}

RequestPaths ==
  { <<"/">>, <<"/health">>, <<"/health", "z">>, <<"/style.css">>,
    <<"/public/", "logo.png">>, <<"/add">>, <<"/add", "/select">>,
    <<"/add", "/", "H1">>, <<"/webdav/">>, <<"/webdav/", "a.strm">>,
    <<"/strm/", "L1">>, <<"/downloads/">>, <<"/downloads/", "a.strm">>,
    <<"/dmmcast/">>, <<"/dmmcast/", "a.strm">>, <<"/other">> }

\* publicPaths.some(path => c.req.path === path || c.req.path.startsWith(path))
publicPaths == {"/health", "/style.css", "/public/"}
isPublicPath(path) == path[1] \in publicPaths

\* basicAuth: the request passes when its Authorization header holds the
\* configured username and password.
basicAuth(config, creds) ==
  /\ ~IsNull(creds)
  /\ Val(creds).username = config.webdavUsername
  /\ Val(creds).password = config.webdavPassword

\* Whether a Basic Auth middleware stands before the route of the path:
\* app.use('/webdav/*') and app.use('/add*') in worker-combined.js,
\* app.use('*') without the public paths in strmCache.js.
authApplies(v, path) ==
  IF v = "combined" THEN path[1] \in {"/webdav/", "/add"}
  ELSE ~isPublicPath(path)

\* The route that answers: what it performs and its status; no route, 404.
Route(performed, status) == [performed |-> performed, status |-> status]
combinedRoute(method, path) ==
  CASE method = "GET" /\ path = <<"/">> -> Route("home", 200)
    [] method = "GET" /\ path = <<"/add">> -> Route("form", 200)
    [] method = "POST" /\ path = <<"/add">> -> Route("add", 200)
    [] method = "POST" /\ path = <<"/add", "/select">> -> Route("select", 200)
    [] method = "GET" /\ path = <<"/health">> -> Route("health", 200)
    [] method \in {"PROPFIND", "GET"} /\ path = <<"/webdav/">> -> Route("list", 207)
    [] method = "GET" /\ Len(path) = 2 /\ path[1] = "/webdav/" -> Route("file", 200)
    [] method = "GET" /\ Len(path) = 2 /\ path[1] = "/strm/" -> Route("redirect", 302)
    [] path = <<"/style.css">> -> Route("asset", 200)
    [] OTHER -> Route("none", 404)
appRoute(method, path) ==
  CASE method = "GET" /\ path = <<"/">> -> Route("home", 200)
    [] method = "GET" /\ path = <<"/add">> -> Route("form", 200)
    [] method = "POST" /\ path = <<"/add">> -> Route("add", 200)
    [] method = "POST" /\ path = <<"/add", "/select">> -> Route("select", 200)
    [] method = "GET" /\ Len(path) = 3 /\ path[1] = "/add" /\ path[2] = "/" ->
         Route("add", 200)
    [] method = "GET" /\ path = <<"/health">> -> Route("health", 200)
    [] path[1] = "/webdav/" -> Route("moved", 301)
    [] method = "PROPFIND" /\ path \in {<<"/">>, <<"/downloads/">>, <<"/dmmcast/">>} ->
         Route("list", 207)
    [] method = "GET" /\ path \in {<<"/downloads/">>, <<"/dmmcast/">>} ->
         Route("list", 200)
    [] method = "GET" /\ path = <<"/style.css">> -> Route("asset", 200)
    [] method = "GET" /\ path[1] = "/public/" -> Route("asset", 200)
    [] method = "GET" /\ Len(path) = 2 /\ path[1] \in {"/downloads/", "/dmmcast/"} ->
         Route("file", 200)
    [] method = "DELETE" /\ Len(path) = 2 /\ path[1] = "/dmmcast/" ->
         Route("delete", 204)
    [] OTHER -> Route("none", 404)

\* The middleware chain and the route: 401 from Basic Auth, else the route.
handle(v, method, path, creds) ==
  IF authApplies(v, path) /\ ~basicAuth(Config, creds)
  THEN Route("none", 401)
  ELSE IF v = "combined" THEN combinedRoute(method, path)
       ELSE appRoute(method, path)

\* One request is answered.
Serve(method, path, creds) ==
  /\ http.phase = "idle"
  /\ http' = [phase |-> "done", method |-> method, path |-> path,
              creds |-> creds,
              status |-> handle(variant, method, path, creds).status,
              performed |-> handle(variant, method, path, creds).performed]
  /\ UNCHANGED cacheVars
  /\ UNCHANGED pipeVars
  /\ UNCHANGED davVars
  /\ UNCHANGED writerVars
  /\ UNCHANGED twin
  /\ UNCHANGED urlAt

\* The response has been sent; the server waits for the next request.
NextRequest ==
  /\ http.phase = "done"
  /\ http' = NoHttp
  /\ UNCHANGED cacheVars
  /\ UNCHANGED pipeVars
  /\ UNCHANGED davVars
  /\ UNCHANGED writerVars
  /\ UNCHANGED twin
  /\ UNCHANGED urlAt

AuthInit ==
  /\ variant \in Variants
  /\ backing = "none"
  /\ StoreInit
  /\ now = 0
  /\ ticks = 0
  /\ obs = NoObs
  /\ pc = "idle"
  /\ run = NoRun
  /\ calls = <<>>
  /\ result = NoResult
  /\ sessions = {}
  /\ DavIdle
  /\ WritersIdle
  /\ twin = NoTwin
  /\ urlAt = NoUrlAt
  /\ http = NoHttp

AuthNext ==
  \/ \E m \in Methods, p \in RequestPaths, c \in Credentials : Serve(m, p, c)
  \/ NextRequest

SpecAuth == AuthInit /\ [][AuthNext]_vars

\* The routes the claim lets everyone call: the health check, the
\* stylesheet, a public static asset.
OpenPath(path) ==
  \/ path = <<"/health">>
  \/ path = <<"/style.css">>
  \/ path[1] = "/public/"

Answered == http.phase = "done"

\* The request carries the configured username and password.
CarriesConfigured ==
  http.creds = Some([username |-> Config.webdavUsername,
                     password |-> Config.webdavPassword])

\* C39: a request for another path that does not carry the configured
\* username and password is refused and nothing is performed for it; the
\* health check is answered without credentials.
C39_UnauthenticatedRejected ==
  Answered =>
    /\ (~OpenPath(http.path) /\ ~CarriesConfigured) =>
         (http.performed = "none" /\ http.status >= 400)
    /\ (http.method = "GET" /\ http.path = <<"/health">>) =>
         (http.performed = "health" /\ http.status = 200)

\* The part that holds: the same for the strmCache.js app, and for the
\* /webdav/ and /add routes of worker-combined.js.
C39_GuardedRoutesRejected ==
  Answered =>
    /\ (/\ ~OpenPath(http.path)
        /\ ~CarriesConfigured
        /\ (variant = "app" \/ http.path[1] \in {"/webdav/", "/add"})) =>
         (http.performed = "none" /\ http.status >= 400)
    /\ (http.method = "GET" /\ http.path = <<"/health">>) =>
         (http.performed = "health" /\ http.status = 200)

\* An unauthenticated DELETE has been refused by the app.
C39_RefusedReached ==
  /\ Answered /\ variant = "app"
  /\ http.method = "DELETE" /\ http.path = <<"/dmmcast/", "a.strm">>
  /\ IsNull(http.creds)
  /\ http.status = 401


\* worker-combined.js has redirected an unauthenticated GET /strm/L1.
C39_OpenRedirectReached ==
  /\ Answered /\ variant = "combined"
  /\ http.method = "GET" /\ http.path = <<"/strm/", "L1">>
  /\ IsNull(http.creds)
  /\ http.performed = "redirect"

=============================================================================
